---- MODULE Spec2Model ----
(***************************************************************************)
(* A model of agentrylab's three stateful cores:                           *)
(*   - telegram/adapter.py    TelegramAdapter (conversations, runs, streams)*)
(*   - runtime/nodes/user.py  UserNode inside the engine's iteration       *)
(*   - runtime/tasks/manager.py  TaskManager (scheduler loop, worker pool) *)
(* Each core has its own next-state relation and specification; the        *)
(* variables of the other cores stay unchanged under it.                   *)
(***************************************************************************)
EXTENDS Integers, Sequences, FiniteSets, TLC

(***************************************************************************)
(* Bounds and inputs of the three models.                                  *)
(***************************************************************************)
\* user messages accepted per conversation object
MaxPosts == 1
\* events one lab.stream(...) yields before it is exhausted
MaxLabEvents == 1
\* events waiting in one event queue (asyncio.Queue() itself is unbounded)
MaxQueue == 2

\* iterations one lab runs
MaxIter == 3
\* user messages pushed per user id of one lab
MaxInputs == 2

\* runs one task starts
MaxRunCount == 1

\* ConversationState objects (each with its lab, event queue and user queue) alive
\* at once. A conversation is started when nothing of a removed one is left, so that
\* the objects alive are those of the registered conversations.
Objs == {1, 2}
\* _run_conversation tasks alive at once
RunIds == {1, 2}
\* stream_events iterations open at once
StreamIds == {1}

\* conversation ids the callers use
ConvIds == {"c1", "c2"}
\* contents of user messages
Contents == {"a"}

\* TelegramAdapter(max_concurrent_conversations=...)
max_concurrent_conversations == 1

\* task ids the presets carry
TaskIds == {"t1"}
\* scheduler threads alive at once
ThreadIds == {1, 2}
\* futures of the worker pool not yet finished
FutIds == {1, 2}

\* the values of TaskManager(store, max_concurrent=...)
PoolSizes == {1, 2}
\* timedelta(minutes=5): the least time between two runs of a task
MinRunGap == 5
\* time.sleep(60), in minutes
SleepMinutes == 1
\* timedelta(hours=1), in minutes: how far back _check_cron_schedule starts croniter
CronLookback == 60

\* "not in the dict" for the maps of the adapter and of the task manager
Absent == 0

\* ConversationStatus members the adapter uses; NONE marks an object slot not in use
ACTIVE == "ACTIVE"
PAUSED == "PAUSED"
STOPPED == "STOPPED"
COMPLETED == "COMPLETED"
ERROR == "ERROR"
NONE == "NONE"

VARIABLES
    \* ---- TelegramAdapter ----
    conversations,        \* _conversations: id -> ConversationState object (or Absent)
    event_streams,        \* _event_streams: id -> event queue object (or Absent)
    user_message_queues,  \* _user_message_queues: id -> user queue object (or Absent)
    running_tasks,        \* _running_tasks: id -> task (or Absent)
    status,               \* ConversationState.status of each object
    evq,                  \* contents of each event queue (asyncio.Queue, FIFO)
    uq,                   \* contents of each user-message queue (asyncio.Queue, FIFO)
    labInbox,             \* per lab instance: contents passed to lab.post_user_message, in call order
    accepted,             \* per object: contents post_user_message accepted, in call order
    rtask,                \* the _run_conversation tasks: position, captured references, pending cancel
    cons                  \* the stream_events iterations: position and captured queue

adapterVars == <<conversations, event_streams, user_message_queues, running_tasks,
                 status, evq, uq, labInbox, accepted, rtask, cons>>

\* A lab on its own (Engine, State and the nodes of one thread)
VARIABLES
    schedule,             \* the preset's every-N turn plan: node id -> cadence
    lab_iter,             \* state.iter
    lab_pos,              \* 0 between iterations, else the index of the next node of this iteration
    user_inputs,          \* the state's user-input queues, by user id
    transcript,           \* the transcript entries
    lab_events,           \* the events emitted during the current iteration
    provider_calls,       \* provider.chat calls made so far
    posted,               \* history: the contents pushed for each user id, in order
    user_turns            \* history: what each user node's turns popped and returned

labVars == <<schedule, lab_iter, lab_pos, user_inputs, transcript, lab_events,
             provider_calls, posted, user_turns>>

\* TaskManager
VARIABLES
    tasks,                \* self.tasks: the task ids in insertion order
    task_config,          \* the TaskConfig of each id: enabled, schedule
    task_status,          \* the TaskStatus of each id: status, time since last_run, run_count, error_count
    active_futures,       \* self.active_futures: id -> future (or Absent)
    futures,              \* the futures of the pool: state and task
    work_queue,           \* the pool's queue of pending futures
    scheduler_running,    \* self._running
    threads,              \* the scheduler threads: position in _scheduler_loop and locals
    max_concurrent        \* self.max_concurrent, the max_workers of the pool

taskVars == <<tasks, task_config, task_status, active_futures, futures, work_queue,
              scheduler_running, threads, max_concurrent>>

\* One run of a task: _run_task around _execute_pipeline
VARIABLES
    pipe_pc,              \* where the run is: idle, source, normalize, process, sink, convert, store, done
    task_params,          \* task_config.params: min_price, max_price, currency, top_n
    task_sinks,           \* task_config.sinks
    source_result,        \* what the source's run() is going to return: ok and data
    raw_data,             \* raw_data of _execute_pipeline
    normalized_listings,  \* normalized_listings of _execute_pipeline
    processed_listings,   \* processed_listings of _execute_pipeline
    sink_calls,           \* the calls of _execute_sink made so far: sink id and the listings passed
    notifications,        \* the listings named in each notification message
    status_results,       \* status.results
    run_status            \* status.status of the run's task

pipeVars == <<pipe_pc, task_params, task_sinks, source_result, raw_data, normalized_listings,
              processed_listings, sink_calls, notifications, status_results, run_status>>

\* The checkpoint store as can_resume_conversation sees it, a state's history, and
\* one call of ApifyActorSource.fetch_data
VARIABLES
    checkpoints,          \* what store.load_checkpoint(id) gives for each id
    resume_result,        \* the last call of can_resume_conversation: its id and what it returned
    history,              \* FakeState.history
    rolled,               \* the last rollback since the last append: made, its n, the history before
    fetch                 \* fetch_data: retries, backoff, the loop's attempt, the actor calls made,
                          \* the waits slept and how the call ended

auxVars == <<checkpoints, resume_result, history, rolled, fetch>>

vars == <<adapterVars, labVars, taskVars, pipeVars, auxVars>>

(***************************************************************************)
(* TelegramAdapter                                                         *)
(***************************************************************************)
\* a task slot and a stream slot not in use (a task that returned, an iteration that ended)
NoRun == [pc |-> "unused", cid |-> "c1", obj |-> 0, eq |-> 0, uqr |-> 0,
          cancel |-> FALSE, n |-> 0]
NoStream == [pc |-> "unused", cid |-> "c1", q |-> 0]

\* TelegramAdapter.__init__: four empty dicts
AdapterInit ==
    /\ conversations = [c \in ConvIds |-> Absent]
    /\ event_streams = [c \in ConvIds |-> Absent]
    /\ user_message_queues = [c \in ConvIds |-> Absent]
    /\ running_tasks = [c \in ConvIds |-> Absent]
    /\ status = [o \in Objs |-> NONE]
    /\ evq = [o \in Objs |-> <<>>]
    /\ uq = [o \in Objs |-> <<>>]
    /\ labInbox = [o \in Objs |-> <<>>]
    /\ accepted = [o \in Objs |-> <<>>]
    /\ rtask = [t \in RunIds |-> NoRun]
    /\ cons = [k \in StreamIds |-> NoStream]

Registered == {c \in ConvIds : conversations[c] # Absent}
\* the slots nothing refers to: not the three dicts, not a running task, not a stream
FreeObjs ==
    {o \in Objs :
        /\ \A c \in ConvIds : o \notin {conversations[c], event_streams[c],
                                         user_message_queues[c]}
        /\ \A t \in RunIds : rtask[t].pc = "streaming"
                                 => o \notin {rtask[t].obj, rtask[t].eq, rtask[t].uqr}
        /\ \A k \in StreamIds : cons[k].pc # "unused" => cons[k].q # o}
FreeRuns == {t \in RunIds : rtask[t].pc = "unused"}
FreeStreams == {k \in StreamIds : cons[k].pc = "unused"}
\* the slots held only by what a removed conversation left behind: a run still
\* going, a stream still open
Leftovers == {o \in Objs \ FreeObjs : \A c \in ConvIds : conversations[c] # o}
Min(S) == CHOOSE x \in S : \A y \in S : x <= y

\* ConversationEvent as the consumers see it
Event(type, content, iter) == [type |-> type, content |-> content, iter |-> iter]
\* UserMessage(conversation_id, user_id, content), processed defaults to False
UserMessage(content) == [content |-> content, processed |-> FALSE]

\* What is still referred to after the step: a ConversationState by _conversations
\* or by a running task, an event queue by _event_streams, a running task or an open
\* stream, a user queue by _user_message_queues or a running task. What nothing
\* refers to is freed. (The lab of a state and the record of what was accepted go
\* when only a cancelled task, which never reads them, holds the state.)
RefState ==
    {o \in Objs : \/ \E c \in ConvIds : conversations'[c] = o
                  \/ \E t \in RunIds : rtask'[t].pc = "streaming" /\ rtask'[t].obj = o}
RefEvents ==
    {o \in Objs : \/ \E c \in ConvIds : event_streams'[c] = o
                  \/ \E t \in RunIds : rtask'[t].pc = "streaming" /\ rtask'[t].eq = o
                  \/ \E k \in StreamIds : cons'[k].pc # "unused" /\ cons'[k].q = o}
RefUser ==
    {o \in Objs : \/ \E c \in ConvIds : user_message_queues'[c] = o
                  \/ \E t \in RunIds : rtask'[t].pc = "streaming" /\ rtask'[t].uqr = o}
RefLab ==
    {o \in Objs : \/ \E c \in ConvIds : conversations'[c] = o
                  \/ \E t \in RunIds : /\ rtask'[t].pc = "streaming" /\ rtask'[t].obj = o
                                        /\ ~rtask'[t].cancel}
Keep(f, R, empty) == [o \in Objs |-> IF o \in R THEN f[o] ELSE empty]

\* the object state after a step whose dicts, tasks and streams are already given
Objects(st, e, u, li, ac) ==
    /\ \A o \in Objs : Len(e[o]) <= MaxQueue
    /\ status' = Keep(st, RefState, NONE)
    /\ evq' = Keep(e, RefEvents, <<>>)
    /\ uq' = Keep(u, RefUser, <<>>)
    /\ labInbox' = Keep(li, RefLab, <<>>)
    /\ accepted' = Keep(ac, RefLab, <<>>)

\* start_conversation_raises without the test for a registered id
start_conversation_raises_nodup(c, ok) ==
    IF Cardinality(Registered) >= max_concurrent_conversations
    THEN "RuntimeError"
    ELSE IF ~ok
    THEN "InvalidPresetError"
    ELSE ""

\* start_conversation_raises with > for >= in the test of the capacity
start_conversation_raises_gt(c, ok) ==
    IF c \in Registered
    THEN "ConversationAlreadyExistsError"
    ELSE IF Cardinality(Registered) > max_concurrent_conversations
    THEN "RuntimeError"
    ELSE IF ~ok
    THEN "InvalidPresetError"
    ELSE ""

\* the exception start_conversation raises, "" when it returns: lines 76-80 and
\* the handler of lines 113-115
start_conversation_raises(c, ok) ==
    IF c \in Registered
    THEN "ConversationAlreadyExistsError"
    ELSE IF Cardinality(Registered) >= max_concurrent_conversations
    THEN "RuntimeError"                         \* "Maximum concurrent conversations reached"
    ELSE IF ~ok
    THEN "InvalidPresetError"
    ELSE ""

\* start_conversation that stores the conversation before init(preset, ...) is called
start_conversation_store_first(c, ok) ==
    /\ IF start_conversation_raises(c, TRUE) # ""
       THEN UNCHANGED vars
       ELSE /\ FreeObjs # {}
            /\ Leftovers = {}
            /\ LET o == Min(FreeObjs) IN
               /\ conversations' = [conversations EXCEPT ![c] = o]
               /\ event_streams' = [event_streams EXCEPT ![c] = o]
               /\ user_message_queues' = [user_message_queues EXCEPT ![c] = o]
               /\ UNCHANGED <<running_tasks, rtask, cons>>
               /\ Objects([status EXCEPT ![o] = ACTIVE], evq, uq, labInbox, accepted)
    /\ UNCHANGED <<labVars, taskVars, pipeVars, auxVars>>

\* start_conversation with an explicit conversation_id; ok = init(preset, ...) returned a lab
start_conversation(c, ok) ==
    /\ IF start_conversation_raises(c, ok) # ""
       THEN UNCHANGED vars
       ELSE /\ FreeObjs # {}
            /\ Leftovers = {}
            /\ LET o == Min(FreeObjs) IN
               /\ conversations' = [conversations EXCEPT ![c] = o]
               /\ event_streams' = [event_streams EXCEPT ![c] = o]
               /\ user_message_queues' = [user_message_queues EXCEPT ![c] = o]
               /\ UNCHANGED <<running_tasks, rtask, cons>>
               /\ Objects([status EXCEPT ![o] = ACTIVE], evq, uq, labInbox, accepted)
    /\ UNCHANGED <<labVars, taskVars, pipeVars, auxVars>>

\* _ensure_conversation_task_started: the dict and the task table afterwards.
\* loop = an event loop is running (asyncio.create_task raises RuntimeError otherwise)
EnsureRunning(c, loop) ==
    IF running_tasks[c] = Absent /\ loop
    THEN [running_tasks EXCEPT ![c] = Min(FreeRuns)]
    ELSE running_tasks
EnsureTasks(c, loop) ==
    IF running_tasks[c] = Absent /\ loop
    THEN [rtask EXCEPT ![Min(FreeRuns)] = [NoRun EXCEPT !.pc = "created", !.cid = c]]
    ELSE rtask
\* the model has a slot for the task the call creates
CanEnsure(c, loop) == running_tasks[c] # Absent \/ ~loop \/ FreeRuns # {}

\* asyncio.Queue() as start_conversation creates both queues (lines 104-105): no
\* maxsize argument, and a maxsize of 0 or less means the queue has no limit
user_queue_maxsize == 0
\* put_nowait on the user queue (line 183): QueueFull only when a positive maxsize
\* is reached
put_nowait_raises(u) ==
    IF user_queue_maxsize > 0 /\ Len(uq[u]) >= user_queue_maxsize THEN "QueueFull" ELSE ""

\* the exception post_user_message raises before it touches anything, "" when it
\* goes on: lines 164-169
post_user_message_raises(c) ==
    IF c \notin Registered
    THEN "ConversationNotFoundError"
    ELSE IF status[conversations[c]] # ACTIVE
    THEN "ConversationNotActiveError"
    ELSE ""

\* post_user_message that starts the run before it tests the status
post_user_message_ensure_first(c, m, loop) ==
    /\ IF c \notin Registered
       THEN UNCHANGED vars
       ELSE /\ CanEnsure(c, loop)
            /\ running_tasks' = EnsureRunning(c, loop)
            /\ rtask' = EnsureTasks(c, loop)
            /\ UNCHANGED <<conversations, event_streams, user_message_queues, cons>>
            /\ IF status[conversations[c]] # ACTIVE
               THEN Objects(status, evq, uq, labInbox, accepted)
               ELSE /\ Len(accepted[conversations[c]]) < MaxPosts
                    /\ Objects(status, evq,
                               [uq EXCEPT ![user_message_queues[c]] = Append(@, UserMessage(m))],
                               labInbox,
                               [accepted EXCEPT ![conversations[c]] = Append(@, m)])
    /\ UNCHANGED <<labVars, taskVars, pipeVars, auxVars>>

\* post_user_message(conversation_id, message, user_id)
post_user_message(c, m, loop) ==
    /\ IF post_user_message_raises(c) # ""
       THEN UNCHANGED vars
       ELSE LET o == conversations[c]
                u == user_message_queues[c] IN
            /\ CanEnsure(c, loop)
            /\ u # Absent
            /\ running_tasks' = EnsureRunning(c, loop)
            /\ rtask' = EnsureTasks(c, loop)
            /\ UNCHANGED <<conversations, event_streams, user_message_queues, cons>>
            /\ IF put_nowait_raises(u) # ""
               THEN \* lines 185-187: RuntimeError("User message queue is full")
                    Objects(status, evq, uq, labInbox, accepted)
               ELSE /\ Len(accepted[o]) < MaxPosts
                    /\ Objects(status, evq, [uq EXCEPT ![u] = Append(@, UserMessage(m))],
                               labInbox, [accepted EXCEPT ![o] = Append(@, m)])
    /\ UNCHANGED <<labVars, taskVars, pipeVars, auxVars>>

\* pause_conversation without its status test: pauses whatever the status
pause_any_status(c) ==
    /\ IF c \notin Registered
       THEN UNCHANGED vars
       ELSE /\ status' = [status EXCEPT ![conversations[c]] = PAUSED]
            /\ UNCHANGED <<conversations, event_streams, user_message_queues,
                           running_tasks, evq, uq, labInbox, accepted, rtask, cons>>
    /\ UNCHANGED <<labVars, taskVars, pipeVars, auxVars>>

\* pause_conversation
pause_conversation(c) ==
    /\ IF c \notin Registered
       THEN UNCHANGED vars                      \* ConversationNotFoundError
       ELSE IF status[conversations[c]] = ACTIVE
       THEN /\ status' = [status EXCEPT ![conversations[c]] = PAUSED]
            /\ UNCHANGED <<conversations, event_streams, user_message_queues,
                           running_tasks, evq, uq, labInbox, accepted, rtask, cons>>
       ELSE UNCHANGED vars
    /\ UNCHANGED <<labVars, taskVars, pipeVars, auxVars>>

\* resume_conversation
resume_conversation(c) ==
    /\ IF c \notin Registered
       THEN UNCHANGED vars                      \* ConversationNotFoundError
       ELSE IF status[conversations[c]] = PAUSED
       THEN /\ status' = [status EXCEPT ![conversations[c]] = ACTIVE]
            /\ UNCHANGED <<conversations, event_streams, user_message_queues,
                           running_tasks, evq, uq, labInbox, accepted, rtask, cons>>
       ELSE UNCHANGED vars
    /\ UNCHANGED <<labVars, taskVars, pipeVars, auxVars>>

\* the part of stop_conversation after the lookup: status, task.cancel(), del
StopStatus(c) == [status EXCEPT ![conversations[c]] = STOPPED]
\* (a cancelled task runs only its CancelledError handler and its finally block,
\* which use state and conversation_id: its other locals are dropped here)
StopTasks(c) ==
    IF running_tasks[c] # Absent /\ rtask[running_tasks[c]].pc # "unused"
    THEN [rtask EXCEPT ![running_tasks[c]] =
             [@ EXCEPT !.cancel = TRUE, !.eq = 0, !.uqr = 0, !.n = 0]]
    ELSE rtask

\* stop_conversation
stop_conversation(c) ==
    /\ IF c \notin Registered
       THEN UNCHANGED vars                      \* ConversationNotFoundError
       ELSE /\ rtask' = StopTasks(c)
            /\ running_tasks' = [running_tasks EXCEPT ![c] = Absent]
            /\ UNCHANGED <<conversations, event_streams, user_message_queues, cons>>
            /\ Objects(StopStatus(c), evq, uq, labInbox, accepted)
    /\ UNCHANGED <<labVars, taskVars, pipeVars, auxVars>>

\* cleanup_conversation without the deletion of the user-message queue
cleanup_conversation_keeps_user_queue(c) ==
    /\ rtask' = IF c \in Registered THEN StopTasks(c) ELSE rtask
    /\ running_tasks' = IF c \in Registered THEN [running_tasks EXCEPT ![c] = Absent]
                        ELSE running_tasks
    /\ event_streams' = [event_streams EXCEPT ![c] = Absent]
    /\ conversations' = [conversations EXCEPT ![c] = Absent]
    /\ UNCHANGED <<user_message_queues, cons>>
    /\ Objects(IF c \in Registered THEN StopStatus(c) ELSE status,
               evq, uq, labInbox, accepted)
    /\ UNCHANGED <<labVars, taskVars, pipeVars, auxVars>>

\* cleanup_conversation: stop if registered, then drop the id from the three maps
cleanup_conversation(c) ==
    /\ rtask' = IF c \in Registered THEN StopTasks(c) ELSE rtask
    /\ running_tasks' = IF c \in Registered THEN [running_tasks EXCEPT ![c] = Absent]
                        ELSE running_tasks
    /\ event_streams' = [event_streams EXCEPT ![c] = Absent]
    /\ user_message_queues' = [user_message_queues EXCEPT ![c] = Absent]
    /\ conversations' = [conversations EXCEPT ![c] = Absent]
    /\ UNCHANGED cons
    /\ Objects(IF c \in Registered THEN StopStatus(c) ELSE status,
               evq, uq, labInbox, accepted)
    /\ UNCHANGED <<labVars, taskVars, pipeVars, auxVars>>

\* _emit_event: the queues after putting an event on the stream registered for c
\* (returns silently when c has no event stream)
EmitEvent(q, c, ev) ==
    IF event_streams[c] = Absent THEN q
    ELSE [q EXCEPT ![event_streams[c]] = Append(@, ev)]

\* the finally block of _run_conversation: del self._running_tasks[conversation_id]
\* if the id is there, whichever task the entry holds
FinallyRunning(t) == [running_tasks EXCEPT ![rtask[t].cid] = Absent]

\* lines 444-446 and the finally block: conversation_completed, COMPLETED
RunCompleted(t) ==
    /\ running_tasks' = FinallyRunning(t)
    /\ rtask' = [rtask EXCEPT ![t] = NoRun]
    /\ UNCHANGED <<conversations, event_streams, user_message_queues, cons>>
    /\ Objects([status EXCEPT ![rtask[t].obj] = COMPLETED],
               EmitEvent(evq, rtask[t].cid,
                         Event("conversation_completed", "Conversation completed", 0)),
               uq, labInbox, accepted)

\* first step of the task: lines 398-408, up to the first wait on lab.stream.
\* A task cancelled before its first step never runs its body.
RunStart(t) ==
    /\ rtask[t].pc = "created"
    /\ UNCHANGED <<conversations, event_streams, user_message_queues, cons>>
    /\ LET c == rtask[t].cid IN
       IF rtask[t].cancel
       THEN /\ rtask' = [rtask EXCEPT ![t] = NoRun]
            /\ UNCHANGED running_tasks
            /\ Objects(status, evq, uq, labInbox, accepted)
       ELSE IF conversations[c] = Absent
       THEN \* KeyError; the handler's state.status fails on the unbound name; finally runs
            /\ rtask' = [rtask EXCEPT ![t] = NoRun]
            /\ running_tasks' = FinallyRunning(t)
            /\ Objects(status, evq, uq, labInbox, accepted)
       ELSE IF event_streams[c] = Absent \/ user_message_queues[c] = Absent
       THEN \* KeyError with state bound: ERROR, the error event has no stream to go to
            /\ rtask' = [rtask EXCEPT ![t] = NoRun]
            /\ running_tasks' = FinallyRunning(t)
            /\ Objects([status EXCEPT ![conversations[c]] = ERROR],
                       evq, uq, labInbox, accepted)
       ELSE /\ rtask' = [rtask EXCEPT ![t].pc = "streaming",
                                      ![t].obj = conversations[c],
                                      ![t].eq = event_streams[c],
                                      ![t].uqr = user_message_queues[c]]
            /\ UNCHANGED running_tasks
            /\ Objects(status,
                       EmitEvent(evq, c,
                                 Event("conversation_started", "Conversation started", 0)),
                       uq, labInbox, accepted)
    /\ UNCHANGED <<labVars, taskVars, pipeVars, auxVars>>

\* lines 426-442: at most one queued user message is taken per lab event,
\* passed to lab.post_user_message and announced as a user_message event
ForwardQueue(t) ==
    IF uq[rtask[t].uqr] = <<>> THEN uq
    ELSE [uq EXCEPT ![rtask[t].uqr] = Tail(@)]
ForwardInbox(t) ==
    IF uq[rtask[t].uqr] = <<>> \/ Head(uq[rtask[t].uqr]).processed THEN labInbox
    ELSE [labInbox EXCEPT ![rtask[t].obj] = Append(@, Head(uq[rtask[t].uqr]).content)]
ForwardEvents(t, q) ==
    IF uq[rtask[t].uqr] = <<>> \/ Head(uq[rtask[t].uqr]).processed THEN q
    ELSE EmitEvent(q, rtask[t].cid,
                   Event("user_message", Head(uq[rtask[t].uqr]).content, 0))

\* the lab stream yields an event: lines 408-442
RunLabEvent(t) ==
    /\ rtask[t].pc = "streaming"
    /\ ~rtask[t].cancel
    /\ rtask[t].n < MaxLabEvents
    /\ IF status[rtask[t].obj] # ACTIVE
       THEN RunCompleted(t)                  \* break, then lines 444-446
       ELSE /\ rtask' = [rtask EXCEPT ![t].n = @ + 1]
            /\ UNCHANGED <<conversations, event_streams, user_message_queues,
                           running_tasks, cons>>
            /\ Objects(status,
                       ForwardEvents(t,
                          [evq EXCEPT ![rtask[t].eq] =
                              Append(@, Event("agent_message", "agent", rtask[t].n + 1))]),
                       ForwardQueue(t), ForwardInbox(t), accepted)
    /\ UNCHANGED <<labVars, taskVars, pipeVars, auxVars>>

\* the lab stream is exhausted: lines 444-446
RunLabEnd(t) ==
    /\ rtask[t].pc = "streaming"
    /\ ~rtask[t].cancel
    /\ RunCompleted(t)
    /\ UNCHANGED <<labVars, taskVars, pipeVars, auxVars>>

\* the lab stream raises: lines 451-458
RunLabRaise(t) ==
    /\ rtask[t].pc = "streaming"
    /\ ~rtask[t].cancel
    /\ running_tasks' = FinallyRunning(t)
    /\ rtask' = [rtask EXCEPT ![t] = NoRun]
    /\ UNCHANGED <<conversations, event_streams, user_message_queues, cons>>
    /\ Objects([status EXCEPT ![rtask[t].obj] = ERROR],
               EmitEvent(evq, rtask[t].cid, Event("error", "Error", 0)),
               uq, labInbox, accepted)
    /\ UNCHANGED <<labVars, taskVars, pipeVars, auxVars>>

\* CancelledError is delivered at the wait on lab.stream: lines 448-450, 455-458
RunCancelled(t) ==
    /\ rtask[t].pc = "streaming"
    /\ rtask[t].cancel
    /\ running_tasks' = FinallyRunning(t)
    /\ rtask' = [rtask EXCEPT ![t] = NoRun]
    /\ UNCHANGED <<conversations, event_streams, user_message_queues, cons>>
    /\ Objects([status EXCEPT ![rtask[t].obj] = STOPPED], evq, uq, labInbox, accepted)
    /\ UNCHANGED <<labVars, taskVars, pipeVars, auxVars>>

\* the check at the top of stream_events' loop (lines 230-232): TRUE = break
StreamBreaks(c) ==
    \/ conversations[c] = Absent
    \/ status[conversations[c]] \in {STOPPED, ERROR}

\* stream_events called and iterated: lines 216-232, up to the first wait on the queue
stream_events(c) ==
    /\ IF c \notin Registered
       THEN UNCHANGED vars                      \* ConversationNotFoundError
       ELSE IF event_streams[c] = Absent
       THEN UNCHANGED vars                      \* StreamingError
       ELSE /\ FreeStreams # {}
            /\ CanEnsure(c, TRUE)
            /\ running_tasks' = EnsureRunning(c, TRUE)
            /\ rtask' = EnsureTasks(c, TRUE)
            /\ cons' = [cons EXCEPT ![Min(FreeStreams)] =
                           IF StreamBreaks(c) THEN NoStream
                           ELSE [pc |-> "get", cid |-> c, q |-> event_streams[c]]]
            /\ UNCHANGED <<conversations, event_streams, user_message_queues>>
            /\ Objects(status, evq, uq, labInbox, accepted)
    /\ UNCHANGED <<labVars, taskVars, pipeVars, auxVars>>

\* event_queue.get() returns an event and the generator yields it (lines 236-237)
StreamYield(k) ==
    /\ cons[k].pc = "get"
    /\ evq[cons[k].q] # <<>>
    /\ cons' = [cons EXCEPT ![k].pc = "yielded"]
    /\ UNCHANGED <<conversations, event_streams, user_message_queues,
                   running_tasks, rtask>>
    /\ Objects(status, [evq EXCEPT ![cons[k].q] = Tail(@)], uq, labInbox, accepted)
    /\ UNCHANGED <<labVars, taskVars, pipeVars, auxVars>>

\* the consumer asks for the next event: task_done(), then the loop's check (lines 240, 230-232)
StreamResume(k) ==
    /\ cons[k].pc = "yielded"
    /\ cons' = [cons EXCEPT ![k] = IF StreamBreaks(cons[k].cid) THEN NoStream
                                   ELSE [@ EXCEPT !.pc = "get"]]
    /\ UNCHANGED <<conversations, event_streams, user_message_queues,
                   running_tasks, rtask>>
    /\ Objects(status, evq, uq, labInbox, accepted)
    /\ UNCHANGED <<labVars, taskVars, pipeVars, auxVars>>

\* wait_for times out on an empty queue: continue, then the loop's check (lines 242-244, 230-232)
StreamTimeout(k) ==
    /\ cons[k].pc = "get"
    /\ evq[cons[k].q] = <<>>
    /\ cons' = [cons EXCEPT ![k] = IF StreamBreaks(cons[k].cid) THEN NoStream
                                   ELSE [@ EXCEPT !.pc = "get"]]
    /\ UNCHANGED <<conversations, event_streams, user_message_queues,
                   running_tasks, rtask>>
    /\ Objects(status, evq, uq, labInbox, accepted)
    /\ UNCHANGED <<labVars, taskVars, pipeVars, auxVars>>

RunStep(t) ==
    \/ RunStart(t)
    \/ RunLabEvent(t)
    \/ RunLabEnd(t)
    \/ RunLabRaise(t)
    \/ RunCancelled(t)

StreamStep(k) ==
    \/ StreamYield(k)
    \/ StreamResume(k)
    \/ StreamTimeout(k)

NextAdapter ==
    \/ \E c \in ConvIds, ok \in BOOLEAN : start_conversation(c, ok)
    \/ \E c \in ConvIds, m \in Contents, loop \in BOOLEAN : post_user_message(c, m, loop)
    \/ \E c \in ConvIds : pause_conversation(c)
    \/ \E c \in ConvIds : resume_conversation(c)
    \/ \E c \in ConvIds : stop_conversation(c)
    \/ \E c \in ConvIds : cleanup_conversation(c)
    \/ \E c \in ConvIds : stream_events(c)
    \/ \E t \in RunIds : RunStep(t)
    \/ \E k \in StreamIds : StreamStep(k)


(***************************************************************************)
(* A lab: Engine, State, UserNode                                          *)
(***************************************************************************)
\* the preset of tests/test_user_node.py: a user node, then an agent node
Nodes == <<"user:alice", "talker">>
NodeRole == [n \in {"user:alice", "talker"} |-> IF n = "talker" THEN "agent" ELSE "user"]
UserNodeIds == {"user:alice"}
\* the user ids a caller may post for: the user node's id, and the id UserNode falls
\* back to when its cfg has none
UserIds == {"user:alice", "user"}
\* message contents a caller posts
Messages == {"", "hi there", "None"}
\* cadences a preset may give the user node
Cadences == {1, 2}
NoPreset == [n \in {"user:alice", "talker"} |-> 0]

\* an optional value: <<>> is None, <<x>> is x
None == <<>>
Some(x) == <<x>>
\* str(x) of a string or None
Str(x) == IF x = None THEN "None" ELSE x[1]

\* NodeOutput(role, content)
NodeOutput(role, content) == [role |-> role, content |-> content]

LabInit ==
    /\ schedule = NoPreset
    /\ lab_iter = 0
    /\ lab_pos = 0
    /\ user_inputs = [u \in UserIds |-> <<>>]
    /\ transcript = <<>>
    /\ lab_events = <<>>
    /\ provider_calls = 0
    /\ posted = [u \in UserIds |-> <<>>]
    /\ user_turns = [u \in UserNodeIds |-> <<>>]

\* init(preset_dict(), ...): the lab exists, with the preset's turn plan
init(cadence) ==
    /\ schedule = NoPreset
    /\ schedule' = [n \in {"user:alice", "talker"} |-> IF n = "talker" THEN 1 ELSE cadence]
    /\ UNCHANGED <<lab_iter, lab_pos, user_inputs, transcript, lab_events,
                   provider_calls, posted, user_turns>>
    /\ UNCHANGED <<adapterVars, taskVars, pipeVars, auxVars>>

\* the every-N scheduler: the nodes that fire on iteration i, in declared order
TurnPlan(i) == SelectSeq(Nodes, LAMBDA n : i % schedule[n] = 0)

\* state.push_user_input: FIFO per user id
push_user_input(u, content) == [user_inputs EXCEPT ![u] = Append(@, content)]
\* state.pop_user_input: the next queued message of the id, None if there is none
pop_user_input(u) == IF user_inputs[u] = <<>> THEN None ELSE Some(Head(user_inputs[u]))
\* the queues after pop_user_input(u)
popped_user_inputs(u) ==
    IF user_inputs[u] = <<>> THEN user_inputs ELSE [user_inputs EXCEPT ![u] = Tail(@)]

\* lab.post_user_message(content, user_id=...), as every caller makes it:
\* immediate and persist keep their defaults, so no event and no transcript entry
lab_post_user_message(u, content) ==
    /\ schedule # NoPreset
    /\ Len(posted[u]) < MaxInputs
    /\ user_inputs' = push_user_input(u, content)
    /\ posted' = [posted EXCEPT ![u] = Append(@, content)]
    /\ UNCHANGED <<schedule, lab_iter, lab_pos, transcript, lab_events,
                   provider_calls, user_turns>>
    /\ UNCHANGED <<adapterVars, taskVars, pipeVars, auxVars>>

\* Engine.step(), first part: the iteration counter advances, the turn plan is asked
EngineStepBegin ==
    /\ schedule # NoPreset
    /\ lab_pos = 0
    /\ lab_iter < MaxIter
    /\ lab_iter' = lab_iter + 1
    /\ lab_pos' = 1
    /\ lab_events' = <<>>
    /\ UNCHANGED <<schedule, user_inputs, transcript, provider_calls, posted, user_turns>>
    /\ UNCHANGED <<adapterVars, taskVars, pipeVars, auxVars>>

\* the node whose turn it is
CurrentNode == TurnPlan(lab_iter)[lab_pos]
NodeIsDue == lab_pos > 0 /\ lab_pos <= Len(TurnPlan(lab_iter))

\* the queue a user node reads: getattr(self.cfg, "id", "user")
UserNodeQueueDefault(n) == "user"

UserNodeQueue(n) == n

\* UserNode.__call__ without the test for None
UserNode_call_str(msg) == NodeOutput("user", Str(msg))

\* UserNode.__call__ once the message is popped: None becomes "", then str(msg)
UserNode_call(msg) == NodeOutput("user", IF msg = None THEN "" ELSE Str(msg))

\* the Engine marks a user turn whose output has no content as skipped
TurnSkipped(out) == out.role = "user" /\ out.content = ""

\* a turn of a user node: no provider, no tool
UserNodeTurn ==
    /\ NodeIsDue
    /\ NodeRole[CurrentNode] = "user"
    /\ LET n == CurrentNode
           msg == pop_user_input(UserNodeQueue(n))
           out == UserNode_call(msg) IN
       /\ user_inputs' = popped_user_inputs(UserNodeQueue(n))
       /\ user_turns' = [user_turns EXCEPT ![n] =
              Append(@, [popped |-> msg, waiting |-> Len(user_inputs[n]), out |-> out])]
       /\ IF TurnSkipped(out)
          THEN /\ lab_events' = Append(lab_events, [event |-> "node_skipped", node_id |-> n])
               /\ UNCHANGED transcript
          ELSE /\ transcript' = Append(transcript, [iter |-> lab_iter, agent_id |-> n,
                                                    role |-> out.role, content |-> out.content])
               /\ UNCHANGED lab_events
    /\ lab_pos' = lab_pos + 1
    /\ UNCHANGED <<schedule, lab_iter, provider_calls, posted>>
    /\ UNCHANGED <<adapterVars, taskVars, pipeVars, auxVars>>

\* a turn of an agent node: one provider call, its result appended
AgentNodeTurn ==
    /\ NodeIsDue
    /\ NodeRole[CurrentNode] = "agent"
    /\ provider_calls' = provider_calls + 1
    /\ lab_events' = Append(lab_events, [event |-> "provider_result", node_id |-> CurrentNode])
    /\ transcript' = Append(transcript, [iter |-> lab_iter, agent_id |-> CurrentNode,
                                         role |-> "agent", content |-> "reply"])
    /\ lab_pos' = lab_pos + 1
    /\ UNCHANGED <<schedule, lab_iter, user_inputs, posted, user_turns>>
    /\ UNCHANGED <<adapterVars, taskVars, pipeVars, auxVars>>

\* Engine.step(), last part: every node of the plan had its turn
EngineStepEnd ==
    /\ lab_pos > 0
    /\ lab_pos > Len(TurnPlan(lab_iter))
    /\ lab_pos' = 0
    /\ lab_events' = Append(lab_events, [event |-> "iteration_complete", node_id |-> ""])
    /\ UNCHANGED <<schedule, lab_iter, user_inputs, transcript, provider_calls,
                   posted, user_turns>>
    /\ UNCHANGED <<adapterVars, taskVars, pipeVars, auxVars>>

NextLab ==
    \/ \E cadence \in Cadences : init(cadence)
    \/ \E u \in UserIds, m \in Messages : lab_post_user_message(u, m)
    \/ EngineStepBegin
    \/ UserNodeTurn
    \/ AgentNodeTurn
    \/ EngineStepEnd


(***************************************************************************)
(* TaskManager                                                             *)
(* Time is kept in minutes and relative: a status holds the minutes since  *)
(* its last_run, a sleeping thread the minutes it still sleeps. A pass of   *)
(* the scheduler loop over the tasks takes no time; runs take any time.     *)
(***************************************************************************)
\* last_run = None
NoTime == -1
\* a future that finished, where something still holds a reference to it
Done == -1

\* the schedules a preset may carry: an interval of 360 seconds, a cron expression
\* that ticks every hour, one that ticks once a year, and an unknown type
Schedules == {[type |-> "interval", value |-> "360"],
              [type |-> "cron", value |-> "0 * * * *"],
              [type |-> "cron", value |-> "0 0 1 1 *"],
              [type |-> "once", value |-> ""]}

\* int(schedule.get("value", 3600)) of _check_interval_schedule
interval_seconds(sch) == IF sch.value = "360" THEN 360 ELSE 3600
\* the ages the model tells apart: a status holds the minutes since last_run up to
\* the larger of the re-run guard and the interval, and "that or more" from there
AgeCap == IF MinRunGap * 60 >= interval_seconds([type |-> "interval", value |-> "360"])
          THEN MinRunGap
          ELSE interval_seconds([type |-> "interval", value |-> "360"]) \div 60

NoConfig == [enabled |-> FALSE, schedule |-> [type |-> "once", value |-> ""]]
\* TaskStatus(task_id, status="created")
NewStatus == [status |-> "created", since_last_run |-> NoTime, run_count |-> 0,
              error_count |-> 0, next_run |-> "None", last_error |-> "None"]
\* a future of the pool: its state, the task it runs, and the count its worker read
\* in "status.run_count += 1" or "status.error_count += 1" and has not written back
NoFuture == [state |-> "unused", task |-> "t1", read |-> 0]
NoThread == [pc |-> "dead", size |-> 0, idx |-> 0, future |-> 0, sleep |-> 0]

\* TaskManager.__init__
TasksInit ==
    /\ tasks = <<>>
    /\ task_config = [id \in TaskIds |-> NoConfig]
    /\ task_status = [id \in TaskIds |-> NewStatus]
    /\ active_futures = [id \in TaskIds |-> Absent]
    /\ futures = [f \in FutIds |-> NoFuture]
    /\ work_queue = <<>>
    /\ scheduler_running = FALSE
    /\ threads = [th \in ThreadIds |-> NoThread]
    /\ max_concurrent \in PoolSizes

TaskExists(id) == \E i \in 1..Len(tasks) : tasks[i] = id
DeadThreads == {th \in ThreadIds : threads[th].pc = "dead"}
FreeFutures == {f \in FutIds : futures[f].state = "unused"}

\* create_task for a preset whose task has id and schedule sch; ids are not reused
create_task(id, sch) ==
    /\ ~TaskExists(id)
    /\ tasks' = Append(tasks, id)
    /\ task_config' = [task_config EXCEPT ![id] = [enabled |-> TRUE, schedule |-> sch]]
    /\ task_status' = [task_status EXCEPT ![id] = NewStatus]
    /\ UNCHANGED <<active_futures, futures, work_queue, scheduler_running, threads>>
    /\ UNCHANGED <<adapterVars, labVars, max_concurrent, pipeVars, auxVars>>

\* start_scheduler: the thread table afterwards (a new thread at the top of
\* _scheduler_loop unless _running was set)
StartedThreads ==
    IF scheduler_running THEN threads
    ELSE [threads EXCEPT ![Min(DeadThreads)] = [NoThread EXCEPT !.pc = "top"]]
\* the model has a slot for the thread the call starts
CanStart == scheduler_running \/ DeadThreads # {}

\* start_scheduler
start_scheduler ==
    /\ CanStart
    /\ scheduler_running' = TRUE
    /\ threads' = StartedThreads
    /\ UNCHANGED <<tasks, task_config, task_status, active_futures, futures, work_queue>>
    /\ UNCHANGED <<adapterVars, labVars, max_concurrent, pipeVars, auxVars>>

\* enable_task
enable_task(id) ==
    /\ IF ~TaskExists(id)
       THEN UNCHANGED vars                   \* ValueError
       ELSE /\ CanStart
            /\ task_config' = [task_config EXCEPT ![id].enabled = TRUE]
            /\ scheduler_running' = TRUE
            /\ threads' = StartedThreads
            /\ task_status' = [task_status EXCEPT ![id].status = "running"]
            /\ UNCHANGED <<tasks, active_futures, futures, work_queue>>
    /\ UNCHANGED <<adapterVars, labVars, max_concurrent, pipeVars, auxVars>>

\* future.cancel() on what the ids in S hold: only a pending future is cancelled
Cancelled(S) ==
    {active_futures[id] : id \in S} \cap {f \in FutIds : futures[f].state = "pending"}
FuturesAfterCancel(S) ==
    [f \in FutIds |-> IF f \in Cancelled(S) THEN NoFuture ELSE futures[f]]
QueueAfterCancel(S) == SelectSeq(work_queue, LAMBDA f : f \notin Cancelled(S))

\* disable_task
disable_task(id) ==
    /\ IF ~TaskExists(id)
       THEN UNCHANGED vars                   \* ValueError
       ELSE /\ task_config' = [task_config EXCEPT ![id].enabled = FALSE]
            /\ futures' = FuturesAfterCancel({id})
            /\ work_queue' = QueueAfterCancel({id})
            /\ active_futures' = [active_futures EXCEPT ![id] = Absent]
            /\ task_status' = [task_status EXCEPT ![id].status = "stopped"]
            /\ UNCHANGED <<tasks, scheduler_running, threads>>
    /\ UNCHANGED <<adapterVars, labVars, max_concurrent, pipeVars, auxVars>>

\* stop_scheduler: the flag goes down, join(timeout=5.0) returns (the thread ended, or
\* it is still in its loop or its sleep), every future is cancelled, the map is cleared
stop_scheduler ==
    /\ scheduler_running' = FALSE
    /\ futures' = FuturesAfterCancel(TaskIds)
    /\ work_queue' = QueueAfterCancel(TaskIds)
    /\ active_futures' = [id \in TaskIds |-> Absent]
    /\ UNCHANGED <<tasks, task_config, task_status, threads>>
    /\ UNCHANGED <<adapterVars, labVars, max_concurrent, pipeVars, auxVars>>

\* the minutes between two ticks of a cron expression; the yearly one has no tick in
\* the hours modelled
CronPeriod(expr) == IF expr = "0 * * * *" THEN 60 ELSE 0

\* _check_cron_schedule: croniter(expr, current_time - 1 hour).get_next() <= current_time,
\* that is, a tick of expr lies in the last CronLookback minutes
check_cron_schedule(sch) ==
    IF sch.value = "" THEN FALSE
    ELSE CronPeriod(sch.value) \in 1..CronLookback

\* _check_interval_schedule
check_interval_schedule(sch) == TRUE

\* _should_run_task, with current_time = now
should_run_task(id) ==
    IF /\ task_status[id].since_last_run # NoTime
       /\ task_status[id].since_last_run < MinRunGap
    THEN FALSE
    ELSE IF task_config[id].schedule.type = "cron"
    THEN check_cron_schedule(task_config[id].schedule)
    ELSE IF task_config[id].schedule.type = "interval"
    THEN check_interval_schedule(task_config[id].schedule)
    ELSE FALSE

\* _scheduler_loop, line 287: the loop's test; then line 289 and the start of the for
SchedTop(th) ==
    /\ threads[th].pc = "top"
    /\ threads' = [threads EXCEPT ![th] =
          IF scheduler_running
          THEN [NoThread EXCEPT !.pc = "iter", !.size = Len(tasks), !.idx = 1]
          ELSE NoThread]
    /\ UNCHANGED <<tasks, task_config, task_status, active_futures, futures,
                   work_queue, scheduler_running>>
    /\ UNCHANGED <<adapterVars, labVars, max_concurrent, pipeVars, auxVars>>

\* time.sleep(60) entered
Sleeping == [NoThread EXCEPT !.pc = "sleep", !.sleep = SleepMinutes]

\* _scheduler_loop, lines 291-306: one pass of the for loop, up to the submit of
\* _execute_task (line 382) when the task is to run
SchedIter(th) ==
    /\ threads[th].pc = "iter"
    /\ LET t == threads[th] IN
       IF Len(tasks) # t.size
       THEN \* RuntimeError: dictionary changed size during iteration; caught, sleep
            /\ threads' = [threads EXCEPT ![th] = Sleeping]
            /\ UNCHANGED <<futures, work_queue>>
       ELSE IF t.idx > t.size
       THEN /\ threads' = [threads EXCEPT ![th] = Sleeping]
            /\ UNCHANGED <<futures, work_queue>>
       ELSE LET id == tasks[t.idx] IN
            IF \/ ~task_config[id].enabled
               \/ active_futures[id] # Absent
               \/ ~should_run_task(id)
            THEN /\ threads' = [threads EXCEPT ![th].idx = @ + 1]
                 /\ UNCHANGED <<futures, work_queue>>
            ELSE /\ FreeFutures # {}
                 /\ LET f == Min(FreeFutures) IN
                    /\ futures' = [futures EXCEPT ![f] = [state |-> "pending", task |-> id,
                                                          read |-> 0]]
                    /\ work_queue' = Append(work_queue, f)
                    /\ threads' = [threads EXCEPT ![th].pc = "assign", ![th].future = f]
    /\ UNCHANGED <<tasks, task_config, task_status, active_futures, scheduler_running>>
    /\ UNCHANGED <<adapterVars, labVars, max_concurrent, pipeVars, auxVars>>

\* _execute_task, line 383: self.active_futures[task_id] = future
SchedAssign(th) ==
    /\ threads[th].pc = "assign"
    /\ active_futures' = [active_futures EXCEPT ![tasks[threads[th].idx]] = threads[th].future]
    /\ threads' = [threads EXCEPT ![th].pc = "iter", ![th].idx = @ + 1, ![th].future = 0]
    /\ UNCHANGED <<tasks, task_config, task_status, futures, work_queue, scheduler_running>>
    /\ UNCHANGED <<adapterVars, labVars, max_concurrent, pipeVars, auxVars>>

\* time.sleep(60) returns
SchedWake(th) ==
    /\ threads[th].pc = "sleep"
    /\ threads[th].sleep = 0
    /\ threads' = [threads EXCEPT ![th] = [NoThread EXCEPT !.pc = "top"]]
    /\ UNCHANGED <<tasks, task_config, task_status, active_futures, futures,
                   work_queue, scheduler_running>>
    /\ UNCHANGED <<adapterVars, labVars, max_concurrent, pipeVars, auxVars>>

Executing == {f \in FutIds : futures[f].state \in {"counting", "running", "failing"}}

PoolUnbounded == TRUE
\* ThreadPoolExecutor(max_workers=max_concurrent): a worker thread is idle or can
\* still be created
PoolHasIdleWorker == Cardinality(Executing) < max_concurrent

\* a worker of the pool takes the oldest pending future and runs _run_task, lines
\* 393-400, up to the read of "status.run_count += 1". The statement is a read and a
\* write of the attribute with no lock around them, so that other threads run in
\* between.
WorkerStart ==
    /\ work_queue # <<>>
    /\ PoolHasIdleWorker
    /\ LET f == Head(work_queue)
           id == futures[f].task IN
       /\ task_status[id].run_count < MaxRunCount
       /\ futures' = [futures EXCEPT ![f].state = "counting",
                                     ![f].read = task_status[id].run_count]
       /\ work_queue' = Tail(work_queue)
       /\ task_status' = [task_status EXCEPT ![id] =
              [@ EXCEPT !.status = "running", !.since_last_run = 0]]
    /\ UNCHANGED <<tasks, task_config, active_futures, scheduler_running, threads>>
    /\ UNCHANGED <<adapterVars, labVars, max_concurrent, pipeVars, auxVars>>

\* line 400, the write of "status.run_count += 1"
WorkerCount(f) ==
    /\ futures[f].state = "counting"
    /\ task_status' = [task_status EXCEPT ![futures[f].task].run_count = futures[f].read + 1]
    /\ futures' = [futures EXCEPT ![f].state = "running", ![f].read = 0]
    /\ UNCHANGED <<tasks, task_config, active_futures, work_queue, scheduler_running,
                   threads>>
    /\ UNCHANGED <<adapterVars, labVars, max_concurrent, pipeVars, auxVars>>

\* _calculate_next_run: the next tick of a cron expression, else an hour from now
calculate_next_run(sch) ==
    IF sch.type = "cron" /\ sch.value # "" THEN "next tick" ELSE "in one hour"

\* the finally block of _run_task, lines 422-427, after which the future is done
Finally(f) ==
    /\ active_futures' = [active_futures EXCEPT ![futures[f].task] = Absent]
    /\ futures' = [futures EXCEPT ![f] = NoFuture]
    /\ threads' = [th \in ThreadIds |->
          IF threads[th].pc = "assign" /\ threads[th].future = f
          THEN [threads[th] EXCEPT !.future = Done] ELSE threads[th]]

\* the pipeline returns (ok), lines 406-413 and the finally block, or it raises:
\* lines 415-417 up to the read of "status.error_count += 1"
WorkerFinish(f, ok) ==
    /\ futures[f].state = "running"
    /\ LET id == futures[f].task IN
       IF ok
       THEN /\ task_status' = [task_status EXCEPT ![id] =
                   [@ EXCEPT !.status = "completed",
                             !.next_run = calculate_next_run(task_config[id].schedule)]]
            /\ Finally(f)
       ELSE /\ task_status' = [task_status EXCEPT ![id].status = "error"]
            /\ futures' = [futures EXCEPT ![f].state = "failing",
                                          ![f].read = task_status[id].error_count]
            /\ UNCHANGED <<active_futures, threads>>
    /\ UNCHANGED <<tasks, task_config, work_queue, scheduler_running>>
    /\ UNCHANGED <<adapterVars, labVars, max_concurrent, pipeVars, auxVars>>

\* lines 417-418, the write of "status.error_count += 1" and last_error, and the
\* finally block
WorkerExcept(f) ==
    /\ futures[f].state = "failing"
    /\ task_status' = [task_status EXCEPT ![futures[f].task] =
           [@ EXCEPT !.error_count = futures[f].read + 1, !.last_error = "str(e)"]]
    /\ Finally(f)
    /\ UNCHANGED <<tasks, task_config, work_queue, scheduler_running>>
    /\ UNCHANGED <<adapterVars, labVars, max_concurrent, pipeVars, auxVars>>

\* a minute passes, while no scheduler thread is inside its pass over the tasks
Tick ==
    /\ \A th \in ThreadIds : threads[th].pc \notin {"iter", "assign"}
    /\ task_status' = [id \in TaskIds |->
          IF task_status[id].since_last_run \in 0..(AgeCap - 1)
          THEN [task_status[id] EXCEPT !.since_last_run = @ + 1] ELSE task_status[id]]
    /\ threads' = [th \in ThreadIds |->
          IF threads[th].sleep > 0
          THEN [threads[th] EXCEPT !.sleep = @ - 1] ELSE threads[th]]
    /\ UNCHANGED <<tasks, task_config, active_futures, futures, work_queue,
                   scheduler_running>>
    /\ UNCHANGED <<adapterVars, labVars, max_concurrent, pipeVars, auxVars>>

NextTasks ==
    \/ \E id \in TaskIds, sch \in Schedules : create_task(id, sch)
    \/ \E id \in TaskIds : enable_task(id)
    \/ \E id \in TaskIds : disable_task(id)
    \/ start_scheduler
    \/ stop_scheduler
    \/ \E th \in ThreadIds : SchedTop(th)
    \/ \E th \in ThreadIds : SchedIter(th)
    \/ \E th \in ThreadIds : SchedAssign(th)
    \/ \E th \in ThreadIds : SchedWake(th)
    \/ WorkerStart
    \/ \E f \in FutIds : WorkerCount(f)
    \/ \E f \in FutIds, ok \in BOOLEAN : WorkerFinish(f, ok)
    \/ \E f \in FutIds : WorkerExcept(f)
    \/ Tick

(***************************************************************************)
(* Task pipeline: source -> normalize -> process -> sink                   *)
(***************************************************************************)

\* most raw records a source returns
MaxRaw == 3

\* the price texts of the raw records: listing_price / price / priceText
PriceTexts == {"free", "$10", "$50", "$200", "EUR10"}
\* A raw record: a dict (shape "dict") or something else (None, shape "other");
\* complete when it has an id and a url; title is its title, which may be blank;
\* price is its price text
RawItems ==
    {[shape |-> "other", complete |-> FALSE, title |-> "", price |-> "free"],
     [shape |-> "dict", complete |-> FALSE, title |-> "x", price |-> "$10"],
     [shape |-> "dict", complete |-> TRUE, title |-> " ", price |-> "$10"]}
    \cup {[shape |-> "dict", complete |-> TRUE, title |-> "x", price |-> t] : t \in PriceTexts}
RawLists == UNION {[1..n -> RawItems] : n \in 0..MaxRaw}

MinPrices == {0, 50}
MaxPrices == {100, 200}
TopNs == {1, 2, 5}
Params == [min_price : MinPrices, max_price : MaxPrices, currency : {"USD"}, top_n : TopNs]
SinkLists == {<<"telegram_notifier">>, <<"telegram_notifier", "webhook">>,
              <<"webhook", "telegram_notifier">>}

\* Listing(id, title, price, currency, url, ...): the fields the pipeline reads
Listing(title, price, currency) == [title |-> title, price |-> price, currency |-> currency]

\* _extract_title / _extract_field: str(value).strip(), None for a value that is empty
extract_title(item) == IF item.title = " " THEN "" ELSE item.title

\* None as the price of a record
NoPrice == 0

\* _extract_price / _parse_price: everything but digits, dots and commas is removed,
\* then float(); no digits left gives None (0.0 in the universal normalizer)
extract_price(text) ==
    CASE text = "$10" -> 10
      [] text = "$50" -> 50
      [] text = "$200" -> 200
      [] text = "EUR10" -> 10
      [] OTHER -> NoPrice

\* FacebookMarketplaceNormalizer._extract_currency: the first symbol or code of the
\* currency map found in the upper-cased price text, USD otherwise
extract_currency(text) == IF text = "EUR10" THEN "EUR" ELSE "USD"

\* UniversalNormalizer._extract_currency: only the symbols $, the euro sign and the
\* shekel sign are looked for, USD otherwise
universal_extract_currency(text) == "USD"

\* item.get(...) on something that is not a dict raises inside _normalize_item
normalize_item_raises(item) == item.shape # "dict"

\* a _normalize_item that does not test the title it extracted
facebook_normalize_item_any_title(item) ==
    IF item.complete /\ extract_price(item.price) # NoPrice
    THEN <<Listing(extract_title(item), extract_price(item.price),
                   extract_currency(item.price))>>
    ELSE <<>>

\* FacebookMarketplaceNormalizer._normalize_item: <<>> stands for None. A record
\* lacking id, title, price, currency or url is skipped; a price of 0.0 counts as lacking
facebook_normalize_item(item) ==
    IF item.complete /\ extract_title(item) # "" /\ extract_price(item.price) # NoPrice
    THEN <<Listing(extract_title(item), extract_price(item.price),
                   extract_currency(item.price))>>
    ELSE <<>>

\* UniversalNormalizer._normalize_item: only id, title and url are required
universal_normalize_item(item) ==
    IF item.complete /\ extract_title(item) # ""
    THEN <<Listing(extract_title(item), extract_price(item.price),
                   universal_extract_currency(item.price))>>
    ELSE <<>>

\* The result of a call: raised, and the value returned when it did not raise
Returned(out) == [raised |-> FALSE, out |-> out]
Raised == [raised |-> TRUE, out |-> <<>>]

\* a normalize whose loop has no try/except: the exception of a record leaves the call
RECURSIVE facebook_normalize_no_try(_)
facebook_normalize_no_try(raw) ==
    IF raw = <<>> THEN Returned(<<>>)
    ELSE IF normalize_item_raises(Head(raw)) THEN Raised
    ELSE LET rest == facebook_normalize_no_try(Tail(raw)) IN
         IF rest.raised THEN Raised
         ELSE Returned(facebook_normalize_item(Head(raw)) \o rest.out)

\* FacebookMarketplaceNormalizer.normalize: each record in its own try/except
RECURSIVE facebook_normalize(_)
facebook_normalize(raw) ==
    IF raw = <<>> THEN Returned(<<>>)
    ELSE LET rest == facebook_normalize(Tail(raw)) IN
         IF normalize_item_raises(Head(raw)) THEN rest
         ELSE [rest EXCEPT !.out = facebook_normalize_item(Head(raw)) \o @]

\* UniversalNormalizer.normalize: each record in its own try/except
RECURSIVE universal_normalize(_)
universal_normalize(raw) ==
    IF raw = <<>> THEN Returned(<<>>)
    ELSE LET rest == universal_normalize(Tail(raw)) IN
         IF normalize_item_raises(Head(raw)) THEN rest
         ELSE [rest EXCEPT !.out = universal_normalize_item(Head(raw)) \o @]

\* _normalize_listing: normalize([raw_item]), the first listing or None
normalize_listing(item) == facebook_normalize(<<item>>)

\* the loop of _execute_pipeline over raw_data: the listings that are not None
RECURSIVE NormalizeAll(_)
NormalizeAll(raw) ==
    IF raw = <<>> THEN Returned(<<>>)
    ELSE LET one == normalize_listing(Head(raw))
             rest == NormalizeAll(Tail(raw)) IN
         IF one.raised \/ rest.raised THEN Raised
         ELSE Returned(one.out \o rest.out)

\* the test of the filter loop: currency and price range
Eligible(l, params) ==
    /\ l.currency = params.currency
    /\ params.min_price <= l.price
    /\ l.price <= params.max_price

\* list.sort(key=price) is stable: a listing goes after those that are not dearer
InsertByPrice(l, sorted) ==
    LET n == Cardinality({i \in 1..Len(sorted) : sorted[i].price <= l.price}) IN
    SubSeq(sorted, 1, n) \o <<l>> \o SubSeq(sorted, n + 1, Len(sorted))
RECURSIVE SortByPrice(_)
SortByPrice(s) ==
    IF s = <<>> THEN <<>>
    ELSE InsertByPrice(s[Len(s)], SortByPrice(SubSeq(s, 1, Len(s) - 1)))

\* s[:n] for n >= 0
Take(s, n) == SubSeq(s, 1, IF n < Len(s) THEN n ELSE Len(s))

\* _process_listings without the currency test
process_listings_any_currency(listings, params) ==
    Take(SortByPrice(SelectSeq(listings,
             LAMBDA l : params.min_price <= l.price /\ l.price <= params.max_price)),
         params.top_n)

\* _process_listings
process_listings(listings, params) ==
    Take(SortByPrice(SelectSeq(listings, LAMBDA l : Eligible(l, params))), params.top_n)

\* the notification names the first three listings
NotifyTop == 3

\* before a run there is nothing: the state of the pipeline in the other specifications
PipeIdle ==
    /\ pipe_pc = "idle"
    /\ task_params = [min_price |-> 0, max_price |-> 100, currency |-> "USD", top_n |-> 5]
    /\ task_sinks = <<>>
    /\ source_result = [ok |-> TRUE, data |-> <<>>]
    /\ raw_data = <<>>
    /\ normalized_listings = <<>>
    /\ processed_listings = <<>>
    /\ sink_calls = <<>>
    /\ notifications = <<>>
    /\ status_results = <<>>
    /\ run_status = "pending"

\* _run_task has set the status to running and calls _execute_pipeline: the task's
\* configuration and what its source is going to return are the inputs
PipeInit ==
    /\ pipe_pc = "source"
    /\ task_params \in Params
    /\ task_sinks \in SinkLists
    /\ source_result \in {[ok |-> FALSE, data |-> <<>>]}
                            \cup {[ok |-> TRUE, data |-> d] : d \in RawLists}
    /\ raw_data = <<>>
    /\ normalized_listings = <<>>
    /\ processed_listings = <<>>
    /\ sink_calls = <<>>
    /\ notifications = <<>>
    /\ status_results = <<>>
    /\ run_status = "running"

\* _run_task, lines 415-418: an exception of the pipeline ends the run with status error
RunTaskExcept ==
    /\ run_status' = "error"
    /\ pipe_pc' = "done"

\* lines 441-444 and _execute_source: the source's data, or its failure raised
PipeSource ==
    /\ pipe_pc = "source"
    /\ IF source_result.ok
       THEN /\ raw_data' = source_result.data
            /\ pipe_pc' = "normalize"
            /\ UNCHANGED run_status
       ELSE /\ RunTaskExcept
            /\ UNCHANGED raw_data
    /\ UNCHANGED <<task_params, task_sinks, source_result, normalized_listings,
                   processed_listings, sink_calls, notifications, status_results>>
    /\ UNCHANGED <<adapterVars, labVars, taskVars, auxVars>>

\* lines 446-451: the records that normalize
PipeNormalize ==
    /\ pipe_pc = "normalize"
    /\ IF NormalizeAll(raw_data).raised
       THEN /\ RunTaskExcept
            /\ UNCHANGED normalized_listings
       ELSE /\ normalized_listings' = NormalizeAll(raw_data).out
            /\ pipe_pc' = "process"
            /\ UNCHANGED run_status
    /\ UNCHANGED <<task_params, task_sinks, source_result, raw_data,
                   processed_listings, sink_calls, notifications, status_results>>
    /\ UNCHANGED <<adapterVars, labVars, taskVars, auxVars>>

\* line 454
PipeProcess ==
    /\ pipe_pc = "process"
    /\ processed_listings' = process_listings(normalized_listings, task_params)
    /\ pipe_pc' = "sink"
    /\ UNCHANGED <<task_params, task_sinks, source_result, raw_data, normalized_listings,
                   sink_calls, notifications, status_results, run_status>>
    /\ UNCHANGED <<adapterVars, labVars, taskVars, auxVars>>

\* _send_telegram_notification: nothing for an empty list, else a message naming the
\* first three listings
send_telegram_notification(listings) ==
    IF listings = <<>> THEN notifications
    ELSE Append(notifications, Take(listings, NotifyTop))

\* _execute_sink: the telegram notifier, or a warning for any other id
execute_sink(sink_id, listings) ==
    IF sink_id = "telegram_notifier" THEN send_telegram_notification(listings)
    ELSE notifications

\* a sink loop that hands the sinks the listings as they were before processing
PipeSinkUnprocessed(raises) ==
    /\ pipe_pc = "sink"
    /\ Len(sink_calls) < Len(task_sinks)
    /\ LET sink_id == task_sinks[Len(sink_calls) + 1] IN
       \* the notifier returns at once when there is nothing to report (lines 558-559)
       /\ raises => (sink_id # "telegram_notifier" \/ processed_listings # <<>>)
       /\ sink_calls' = Append(sink_calls,
                               [sink |-> sink_id, listings |-> normalized_listings])
       /\ IF raises
          THEN /\ RunTaskExcept
               /\ UNCHANGED notifications
          ELSE /\ notifications' = execute_sink(sink_id, normalized_listings)
               /\ UNCHANGED <<pipe_pc, run_status>>
    /\ UNCHANGED <<task_params, task_sinks, source_result, raw_data, normalized_listings,
                   processed_listings, status_results>>
    /\ UNCHANGED <<adapterVars, labVars, taskVars, auxVars>>

\* lines 456-458, one turn of the loop: the next sink is called with the processed
\* listings. Nothing between the call and _run_task catches what the sink raises.
PipeSink(raises) ==
    /\ pipe_pc = "sink"
    /\ Len(sink_calls) < Len(task_sinks)
    /\ LET sink_id == task_sinks[Len(sink_calls) + 1] IN
       \* the notifier returns at once when there is nothing to report (lines 558-559)
       /\ raises => (sink_id # "telegram_notifier" \/ processed_listings # <<>>)
       /\ sink_calls' = Append(sink_calls,
                               [sink |-> sink_id, listings |-> processed_listings])
       /\ IF raises
          THEN /\ RunTaskExcept
               /\ UNCHANGED notifications
          ELSE /\ notifications' = execute_sink(sink_id, processed_listings)
               /\ UNCHANGED <<pipe_pc, run_status>>
    /\ UNCHANGED <<task_params, task_sinks, source_result, raw_data, normalized_listings,
                   processed_listings, status_results>>
    /\ UNCHANGED <<adapterVars, labVars, taskVars, auxVars>>

\* lines 460-469: a result for each processed listing, in order
Results(listings) ==
    [i \in 1..Len(listings) |->
        [price |-> listings[i].price, currency |-> listings[i].currency]]

\* every sink has been called: lines 460-471, then _run_task lines 407-408
PipeReturn ==
    /\ pipe_pc = "sink"
    /\ Len(sink_calls) = Len(task_sinks)
    /\ status_results' = status_results \o Results(processed_listings)
    /\ run_status' = "completed"
    /\ pipe_pc' = "done"
    /\ UNCHANGED <<task_params, task_sinks, source_result, raw_data, normalized_listings,
                   processed_listings, sink_calls, notifications>>
    /\ UNCHANGED <<adapterVars, labVars, taskVars, auxVars>>

\* UniversalNormalizer().normalize(data) called on the source's data instead of a run
UniversalNormalize ==
    /\ pipe_pc = "source"
    /\ source_result.ok
    /\ raw_data' = source_result.data
    /\ IF universal_normalize(source_result.data).raised
       THEN /\ run_status' = "error"
            /\ UNCHANGED normalized_listings
       ELSE /\ normalized_listings' = universal_normalize(source_result.data).out
            /\ UNCHANGED run_status
    /\ pipe_pc' = "normalized"
    /\ UNCHANGED <<task_params, task_sinks, source_result, processed_listings,
                   sink_calls, notifications, status_results>>
    /\ UNCHANGED <<adapterVars, labVars, taskVars, auxVars>>

NextPipeline ==
    \/ PipeSource
    \/ PipeNormalize
    \/ PipeProcess
    \/ \E raises \in BOOLEAN : PipeSink(raises)
    \/ PipeReturn
    \/ UniversalNormalize

(***************************************************************************)
(* can_resume_conversation and the checkpoint store                        *)
(***************************************************************************)

\* What store.load_checkpoint(id) gives: None, an empty dict, a structured snapshot
\* ({"thread_id": ..., "iter": ..., "history": ...}), an opaque one
\* ({"_pickled": ...}), or an exception
Snapshots == {"None", "empty", "structured", "pickled", "raises"}

\* no call of fetch_data has been made
NoFetch == [pc |-> "idle", retries |-> 0, backoff |-> 0, attempt |-> 0,
            calls |-> 0, outcomes |-> <<>>, sleeps |-> <<>>, result |-> ""]

\* no rollback has been made since the last append
NoRollback == [made |-> FALSE, n |-> 0, before |-> <<>>]

\* an empty store, no call made yet, an empty history
AuxInit ==
    /\ checkpoints = [c \in ConvIds |-> "None"]
    /\ resume_result = [id |-> "", returned |-> ""]
    /\ history = <<>>
    /\ rolled = NoRollback
    /\ fetch = NoFetch

\* the store comes to hold a checkpoint for the id, or to fail on it
save_checkpoint(c, snap) ==
    /\ checkpoints[c] # snap
    /\ checkpoints' = [checkpoints EXCEPT ![c] = snap]
    /\ UNCHANGED <<resume_result, history, rolled, fetch>>
    /\ UNCHANGED <<adapterVars, labVars, taskVars, pipeVars>>

\* can_resume_conversation without the test of the _pickled key
can_resume_conversation_returns_any_dict(snap) ==
    IF snap = "raises" THEN "False"
    ELSE IF snap = "None" THEN "False"
    ELSE IF snap = "empty" THEN "{}"
    ELSE "True"

\* What can_resume_conversation returns for what the store gives (lines 144-150):
\* isinstance(snapshot, dict) and snapshot and "_pickled" not in snapshot is the first
\* operand that is false, so the empty dict itself for an empty snapshot
can_resume_conversation_returns(snap) ==
    IF snap = "raises" THEN "False"
    ELSE IF snap = "None" THEN "False"
    ELSE IF snap = "empty" THEN "{}"
    ELSE IF snap = "pickled" THEN "False"
    ELSE "True"

\* can_resume_conversation(conversation_id)
can_resume_conversation(c) ==
    /\ resume_result' = [id |-> c,
                         returned |-> can_resume_conversation_returns(checkpoints[c])]
    /\ UNCHANGED <<checkpoints, history, rolled, fetch>>
    /\ UNCHANGED <<adapterVars, labVars, taskVars, pipeVars>>

NextResume ==
    \/ \E c \in ConvIds, snap \in Snapshots : save_checkpoint(c, snap)
    \/ \E c \in ConvIds : can_resume_conversation(c)

(***************************************************************************)
(* FakeState: the history and its rollback                                 *)
(***************************************************************************)

\* most entries of a history
MaxHistory == 4

\* the agent ids of the entries
Roles == {"agent", "moderator", "user"}

\* append_message(agent_id, output): a flattened view of the output is stored
append_message(role) ==
    /\ Len(history) < MaxHistory
    /\ history' = Append(history, role)
    /\ rolled' = NoRollback
    /\ UNCHANGED <<checkpoints, resume_result, fetch>>
    /\ UNCHANGED <<adapterVars, labVars, taskVars, pipeVars>>

\* a rollback that deletes history[:n], the first n entries
rollback_oldest(n) ==
    /\ history' = IF n > 0
                  THEN SubSeq(history, (IF n < Len(history) THEN n ELSE Len(history)) + 1,
                              Len(history))
                  ELSE history
    /\ rolled' = [made |-> TRUE, n |-> n, before |-> history]
    /\ UNCHANGED <<checkpoints, resume_result, fetch>>
    /\ UNCHANGED <<adapterVars, labVars, taskVars, pipeVars>>

\* rollback(n): if n > 0, del self.history[-n:], which deletes everything when n is
\* not less than the length
rollback(n) ==
    /\ history' = IF n > 0
                  THEN SubSeq(history, 1, IF n < Len(history) THEN Len(history) - n ELSE 0)
                  ELSE history
    /\ rolled' = [made |-> TRUE, n |-> n, before |-> history]
    /\ UNCHANGED <<checkpoints, resume_result, fetch>>
    /\ UNCHANGED <<adapterVars, labVars, taskVars, pipeVars>>

NextState ==
    \/ \E role \in Roles : append_message(role)
    \/ \E n \in 0..(MaxHistory + 1) : rollback(n)

(***************************************************************************)
(* ApifyActorSource.fetch_data                                             *)
(***************************************************************************)
\* int(params.get("retries", 3)); -1 stands for a value for which the loop has no pass
Retries == {-1, 0, 1, 2}
\* float(params.get("backoff", 2.0)), whole and not negative
Backoffs == {0, 1, 2}
\* how one attempt goes: the dataset has items, the dataset is empty, the run is
\* falsy or names no dataset (ToolError raised inside the try), or the client raises
Outcomes == {"items", "empty", "no dataset", "raises"}
\* the attempts that reach the except clause
Failed(out) == out \in {"no dataset", "raises"}

\* self.backoff ** attempt
RECURSIVE Pow(_, _)
Pow(b, n) == IF n = 0 THEN 1 ELSE b * Pow(b, n - 1)

\* fetch_data is called on a source built with retries r and backoff b: lines 163-207,
\* up to the first pass of the loop. installed = apify_client can be imported
fetch_data(r, b, installed) ==
    /\ fetch.pc \in {"idle", "returned", "raised"}
    /\ fetch' = IF ~installed
                THEN [NoFetch EXCEPT !.pc = "raised", !.retries = r, !.backoff = b,
                                     !.result = "ToolError"]
                ELSE IF r + 1 <= 0
                THEN [NoFetch EXCEPT !.pc = "returned", !.retries = r, !.backoff = b,
                                     !.result = "[]"]
                ELSE [NoFetch EXCEPT !.pc = "call", !.retries = r, !.backoff = b]
    /\ UNCHANGED <<checkpoints, resume_result, history, rolled>>
    /\ UNCHANGED <<adapterVars, labVars, taskVars, pipeVars>>

\* one pass of the loop with one more pass than range(self.retries + 1) gives
ActorCallOnceMore(out) ==
    /\ fetch.pc = "call"
    /\ fetch' =
          IF ~Failed(out)
          THEN [fetch EXCEPT !.pc = "returned", !.calls = @ + 1,
                             !.outcomes = Append(@, out),
                             !.result = IF out = "empty" THEN "[]" ELSE "items"]
          ELSE IF fetch.attempt <= fetch.retries
          THEN [fetch EXCEPT !.pc = "sleep", !.calls = @ + 1,
                             !.outcomes = Append(@, out),
                             !.sleeps = Append(@, Pow(fetch.backoff, fetch.attempt))]
          ELSE [fetch EXCEPT !.pc = "raised", !.calls = @ + 1,
                             !.outcomes = Append(@, out), !.result = "ToolError"]
    /\ UNCHANGED <<checkpoints, resume_result, history, rolled>>
    /\ UNCHANGED <<adapterVars, labVars, taskVars, pipeVars>>

\* one pass of the loop, lines 208-240: the actor call and the read of its dataset,
\* then the return, or the except clause up to time.sleep or to the ToolError
ActorCall(out) ==
    /\ fetch.pc = "call"
    /\ fetch' =
          IF ~Failed(out)
          THEN [fetch EXCEPT !.pc = "returned", !.calls = @ + 1,
                             !.outcomes = Append(@, out),
                             !.result = IF out = "empty" THEN "[]" ELSE "items"]
          ELSE IF fetch.attempt < fetch.retries
          THEN [fetch EXCEPT !.pc = "sleep", !.calls = @ + 1,
                             !.outcomes = Append(@, out),
                             !.sleeps = Append(@, Pow(fetch.backoff, fetch.attempt))]
          ELSE [fetch EXCEPT !.pc = "raised", !.calls = @ + 1,
                             !.outcomes = Append(@, out), !.result = "ToolError"]
    /\ UNCHANGED <<checkpoints, resume_result, history, rolled>>
    /\ UNCHANGED <<adapterVars, labVars, taskVars, pipeVars>>

\* time.sleep(wait_time) returns and the loop goes to its next pass
SleepReturns ==
    /\ fetch.pc = "sleep"
    /\ fetch' = [fetch EXCEPT !.pc = "call", !.attempt = @ + 1]
    /\ UNCHANGED <<checkpoints, resume_result, history, rolled>>
    /\ UNCHANGED <<adapterVars, labVars, taskVars, pipeVars>>

NextSource ==
    \/ \E r \in Retries, b \in Backoffs, installed \in BOOLEAN : fetch_data(r, b, installed)
    \/ \E out \in Outcomes : ActorCall(out)
    \/ SleepReturns

Init == AdapterInit /\ LabInit /\ TasksInit /\ PipeIdle /\ AuxInit

\* a run of the pipeline on its own, with the inputs of the run drawn
InitPipeline ==
    /\ AdapterInit /\ LabInit /\ TasksInit /\ PipeInit /\ AuxInit
    /\ max_concurrent = Min(PoolSizes)

\* the adapter on its own: the pool size of the TaskManager, which no step of the
\* adapter reads, is fixed
InitAdapter == Init /\ max_concurrent = Min(PoolSizes)

SpecAdapter == InitAdapter /\ [][NextAdapter]_vars

SpecLab == Init /\ [][NextLab]_vars

SpecTasks == Init /\ [][NextTasks]_vars

SpecPipeline == InitPipeline /\ [][NextPipeline]_vars

SpecResume == Init /\ [][NextResume]_vars

SpecState == Init /\ [][NextState]_vars

SpecSource == Init /\ [][NextSource]_vars

\* a call of fetch_data goes on: the actor call returns or raises (it is given
\* timeout_secs), and time.sleep returns
FetchStep == SleepReturns \/ \E out \in Outcomes : ActorCall(out)
FairSpecSource == SpecSource /\ WF_vars(FetchStep)

\* the operating system runs every thread that can take a step: the scheduler
\* threads, the workers of the pool, and the clock
ThreadStep ==
    \/ \E th \in ThreadIds : SchedTop(th) \/ SchedIter(th) \/ SchedAssign(th) \/ SchedWake(th)
    \/ WorkerStart
    \/ \E f \in FutIds : WorkerCount(f) \/ WorkerExcept(f)
    \/ \E f \in FutIds, ok \in BOOLEAN : WorkerFinish(f, ok)
    \/ Tick
FairSpecTasks == SpecTasks /\ WF_vars(ThreadStep)

\* the event loop runs every ready task and every consumer keeps iterating
FairSpecAdapter ==
    /\ SpecAdapter
    /\ \A t \in RunIds : WF_vars(RunStep(t))
    /\ \A k \in StreamIds : WF_vars(StreamStep(k))

(***************************************************************************)
(* Properties of the adapter                                               *)
(***************************************************************************)
StatusOf(c) == IF conversations[c] = Absent THEN NONE ELSE status[conversations[c]]

\* C2: STOPPED is terminal. A registered conversation whose status is STOPPED keeps
\* that status in every step that leaves it registered (only cleanup_conversation
\* ends it).
C2_StoppedIsTerminal ==
    [][\A c \in ConvIds :
         (StatusOf(c) = STOPPED /\ conversations'[c] = conversations[c])
            => status'[conversations[c]] = STOPPED]_vars

\* C3: a PAUSED conversation leaves PAUSED only to ACTIVE, by resume_conversation,
\* or to STOPPED, by stop_conversation; no step of the background run changes the
\* status of a PAUSED conversation.
C3_PausedLeavesOnlyByResumeOrStop ==
    [][\A c \in ConvIds :
         (/\ StatusOf(c) = PAUSED
          /\ conversations'[c] = conversations[c]
          /\ status'[conversations[c]] # PAUSED)
            => \/ status'[conversations[c]] = ACTIVE /\ resume_conversation(c)
               \/ status'[conversations[c]] = STOPPED /\ stop_conversation(c)]_vars

\* C4: pause_conversation changes the status only from ACTIVE to PAUSED and
\* resume_conversation only from PAUSED to ACTIVE; in any other status (and for an
\* unknown id) each leaves every status as it is. Hence no step at all makes an
\* object PAUSED unless it was ACTIVE, or ACTIVE unless it was PAUSED or new.
C4_PauseResumeGuarded ==
    [][/\ \A c \in ConvIds :
            pause_conversation(c) =>
                status' = IF StatusOf(c) = ACTIVE
                          THEN [status EXCEPT ![conversations[c]] = PAUSED]
                          ELSE status
       /\ \A c \in ConvIds :
            resume_conversation(c) =>
                status' = IF StatusOf(c) = PAUSED
                          THEN [status EXCEPT ![conversations[c]] = ACTIVE]
                          ELSE status
       /\ \A o \in Objs :
            /\ (status'[o] = PAUSED /\ status[o] # PAUSED) => status[o] = ACTIVE
            /\ (status'[o] = ACTIVE /\ status[o] # ACTIVE) => status[o] \in {PAUSED, NONE}
      ]_vars

\* a conversation has been paused (pause_conversation acted on an ACTIVE conversation)
C4_Witness == \E c \in ConvIds : StatusOf(c) = PAUSED

\* C5: no event is dropped. When a stream_events iteration ends, every event put on
\* its queue has been yielded: the queue is empty.
C5_NoEventDropped ==
    [][\A k \in StreamIds :
         (cons[k].pc # "unused" /\ cons'[k].pc = "unused") => evq[cons[k].q] = <<>>]_vars

\* C6: once the conversation of an open stream_events iteration is terminal (status
\* COMPLETED, STOPPED or ERROR, or id no longer registered), the iteration
\* eventually ends.
Terminal(c) == conversations[c] = Absent \/ StatusOf(c) \in {COMPLETED, STOPPED, ERROR}
C6_StreamEndsWhenTerminal ==
    \A k \in StreamIds :
        (cons[k].pc # "unused" /\ Terminal(cons[k].cid)) ~> (cons[k].pc = "unused")

\* C7: every accepted user message is forwarded to lab.post_user_message exactly
\* once, in posting order. Nothing forwards after the run has completed, so once the
\* status is COMPLETED the messages forwarded are the messages accepted, in order.
C7_EveryAcceptedForwarded ==
    \A c \in ConvIds :
        StatusOf(c) = COMPLETED => labInbox[conversations[c]] = accepted[conversations[c]]

(***************************************************************************)
(* Properties of the lab                                                   *)
(***************************************************************************)
\* the turns of user node u that took a message
Consuming(u) == SelectSeq(user_turns[u], LAMBDA r : r.popped # None)

\* C8: the turns of a user node consume the messages posted for it in FIFO order,
\* one per turn: a turn takes a message exactly when one is waiting, the messages
\* taken followed by those still queued are the messages posted, and each taking
\* turn returns a role=user output with the message as content. So k messages
\* followed by k turns leave the queue empty with the k messages emitted in order.
C8_UserTurnsConsumeFifo ==
    \A u \in UserNodeIds :
        /\ \A i \in 1..Len(user_turns[u]) :
              (user_turns[u][i].popped = None) <=> (user_turns[u][i].waiting = 0)
        /\ [i \in 1..Len(Consuming(u)) |-> Consuming(u)[i].popped[1]] \o user_inputs[u]
              = posted[u]
        /\ \A i \in 1..Len(Consuming(u)) :
              Consuming(u)[i].out = NodeOutput("user", Consuming(u)[i].popped[1])

\* two different messages were posted and two turns of the user node consumed them
C8_Witness ==
    \E u \in UserNodeIds :
        /\ Len(posted[u]) = 2 /\ posted[u][1] # posted[u][2]
        /\ user_inputs[u] = <<>>
        /\ Len(Consuming(u)) = 2

\* C9: a user node's turn that finds its queue empty returns an empty-content user
\* output, calls no provider, emits node_skipped and appends nothing to the
\* transcript; and when the iteration ends every other node of its plan has an
\* entry for this iteration in the transcript.
C9_EmptyUserTurnSkipped ==
    [][/\ \A n \in UserNodeIds :
            (UserNodeTurn /\ CurrentNode = n /\ user_inputs[n] = <<>>) =>
                /\ user_turns'[n][Len(user_turns'[n])].out = NodeOutput("user", "")
                /\ provider_calls' = provider_calls
                /\ transcript' = transcript
                /\ lab_events' = Append(lab_events,
                                        [event |-> "node_skipped", node_id |-> n])
       /\ EngineStepEnd =>
            \A i \in 1..Len(TurnPlan(lab_iter)) :
                NodeRole[TurnPlan(lab_iter)[i]] # "user" =>
                    \E j \in 1..Len(transcript) :
                        /\ transcript[j].iter = lab_iter
                        /\ transcript[j].agent_id = TurnPlan(lab_iter)[i]
      ]_vars

\* an iteration has ended in which the user node was skipped and the agent appended
C9_Witness ==
    /\ lab_pos = 0
    /\ \E i \in 1..Len(lab_events) : lab_events[i].event = "node_skipped"
    /\ \E j \in 1..Len(transcript) :
          transcript[j].iter = lab_iter /\ transcript[j].agent_id = "talker"
    /\ ~ \E j \in 1..Len(transcript) :
          transcript[j].iter = lab_iter /\ transcript[j].agent_id = "user:alice"

(***************************************************************************)
(* Properties of the task manager                                          *)
(***************************************************************************)
\* C1: at most one execution of a task id is in flight at any time.
C1_OneExecutionPerTask ==
    \A id \in TaskIds : Cardinality({f \in Executing : futures[f].task = id}) <= 1

\* C10: consecutive run starts of a task are at least 5 minutes apart: a run that
\* starts when the task has run before starts MinRunGap or more after that run.
C10_RunStartsFiveMinutesApart ==
    [][\A f \in FutIds :
         (/\ futures[f].state = "pending" /\ futures'[f].state = "counting"
          /\ task_status[futures[f].task].since_last_run # NoTime)
            => task_status[futures[f].task].since_last_run >= MinRunGap]_vars

(***************************************************************************)
(* Properties of the task scheduler's firing rules                         *)
(***************************************************************************)
\* the step in which scheduler thread th fires a task: _execute_task submits it
Fires(th) == threads[th].pc = "iter" /\ threads'[th].pc = "assign"
FiredTask(th) == tasks[threads[th].idx]

\* C11: a task of type interval is fired at a wake-up only if it never ran or at
\* least value_seconds have passed since its last_run (and a never-run task is
\* fired at once).
C11_IntervalFiresAfterInterval ==
    [][\A th \in ThreadIds :
         (Fires(th) /\ task_config[FiredTask(th)].schedule.type = "interval")
            => \/ task_status[FiredTask(th)].since_last_run = NoTime
               \/ task_status[FiredTask(th)].since_last_run * 60
                     >= interval_seconds(task_config[FiredTask(th)].schedule)]_vars

\* a tick of cron expression expr lies in the last age minutes whatever the minute
\* of the hour is: the age is a period of expr or more (an age at AgeCap stands for
\* any longer time and is not judged)
TickElapsed(expr, age) == age >= CronPeriod(expr) \/ age >= AgeCap

\* C12: a task of type cron is fired at a wake-up only if the first tick of its
\* expression after last_run is at or before now, that is, only if a tick has
\* elapsed since the task last ran.
C12_CronFiresAfterTick ==
    [][\A th \in ThreadIds :
         (Fires(th) /\ task_config[FiredTask(th)].schedule.type = "cron")
            => \/ task_status[FiredTask(th)].since_last_run = NoTime
               \/ TickElapsed(task_config[FiredTask(th)].schedule.value,
                              task_status[FiredTask(th)].since_last_run)]_vars

(***************************************************************************)
(* Properties of the worker pool and of the run accounting                 *)
(***************************************************************************)
\* C13: in every reachable state the number of executions that are running is at
\* most max_concurrent, however many futures have been submitted.
C13_RunningWithinPool == Cardinality(Executing) <= max_concurrent

\* the pool is full and a submitted execution waits for a worker
C13_Witness ==
    /\ Cardinality(Executing) = max_concurrent
    /\ work_queue # <<>>

\* C14: while max_concurrent executions are running, the pool takes no further
\* execution: a task due at a wake-up is not submitted (neither started nor queued).
C14_FullPoolRejects ==
    [][\A th \in ThreadIds : Fires(th) => Cardinality(Executing) < max_concurrent]_vars

\* C15: the run accounting keeps error_count <= run_count in every reachable state
\* (every run adds exactly one to run_count at its start and, when it fails, exactly
\* one to error_count).
C15_ErrorsWithinRuns ==
    \A id \in TaskIds : task_status[id].error_count <= task_status[id].run_count

\* C16: once disable_task(id) has made the status of a task "stopped", the status
\* stays "stopped" in every step that is not enable_task(id), also when an execution
\* of the task was pending or running at the call.
C16_StoppedUntilEnabled ==
    [][\A id \in TaskIds :
         (task_status[id].status = "stopped" /\ task_status'[id].status # "stopped")
            => enable_task(id)]_vars

\* C17: at most one scheduler thread is alive in every reachable state, whatever
\* the sequence of start_scheduler, stop_scheduler and enable_task calls.
C17_OneSchedulerLoop == Cardinality(ThreadIds \ DeadThreads) <= 1

(***************************************************************************)
(* Properties of start_conversation                                        *)
(***************************************************************************)
\* C18: start_conversation with an id that is registered raises
\* ConversationAlreadyExistsError, whatever the preset and the number of
\* conversations, and the call changes nothing: the three dicts, the state, the
\* event queue and the user queue of the conversation stay as they are.
C18_DuplicateIdRaises ==
    [][\A c \in Registered, ok \in BOOLEAN :
         /\ start_conversation_raises(c, ok) = "ConversationAlreadyExistsError"
         /\ start_conversation(c, ok) => UNCHANGED adapterVars]_vars

\* a registered conversation that is paused, with a user message waiting and an
\* event not yet consumed: the state a duplicate start must leave alone
C18_Witness ==
    \E c \in Registered :
        /\ status[conversations[c]] = PAUSED
        /\ uq[user_message_queues[c]] # <<>>
        /\ evq[event_streams[c]] # <<>>

\* C19: start_conversation with a new id, when max_concurrent_conversations
\* conversations are registered, fails with CapacityError.
C19_FullAdapterRaisesCapacityError ==
    \A c \in ConvIds \ Registered, ok \in BOOLEAN :
        Cardinality(Registered) >= max_concurrent_conversations
            => start_conversation_raises(c, ok) = "CapacityError"

\* C20: in every reachable state at most max_concurrent_conversations
\* conversations are registered.
C20_RegisteredWithinCapacity == Cardinality(Registered) <= max_concurrent_conversations

\* the adapter is full, and earlier conversations were started and removed
C20_Witness ==
    /\ Cardinality(Registered) = max_concurrent_conversations
    /\ "c2" \in Registered

\* C21: when init(preset, ...) fails in start_conversation, for a new id and with
\* room in the adapter, the call raises InvalidPresetError and changes nothing: no
\* conversation, event queue or user queue is registered, and a start of the same
\* id with a preset that initialises is not refused.
C21_InvalidPresetRegistersNothing ==
    [][\A c \in ConvIds \ Registered :
         Cardinality(Registered) < max_concurrent_conversations
            => /\ start_conversation_raises(c, FALSE) = "InvalidPresetError"
               /\ start_conversation(c, FALSE) => UNCHANGED adapterVars
               /\ start_conversation_raises(c, TRUE) = ""]_vars

\* the adapter has room and a new conversation can be started, after an earlier
\* conversation was started and removed
C21_Witness ==
    /\ Registered = {}
    /\ FreeObjs # {} /\ Leftovers = {}
    /\ \E t \in RunIds : rtask[t].pc # "unused"

(***************************************************************************)
(* Properties of post_user_message and cleanup_conversation                *)
(***************************************************************************)
\* C22: post_user_message raises ConversationNotFoundError for an id that is not
\* registered and ConversationNotActiveError for a conversation whose status is not
\* ACTIVE, and in both cases the call changes nothing: no user queue grows and no
\* background run is created.
C22_PostRefusedChangesNothing ==
    [][\A c \in ConvIds :
         /\ c \notin Registered => post_user_message_raises(c) = "ConversationNotFoundError"
         /\ (c \in Registered /\ StatusOf(c) # ACTIVE)
               => post_user_message_raises(c) = "ConversationNotActiveError"
         /\ \A m \in Contents, loop \in BOOLEAN :
               (post_user_message_raises(c) # "" /\ post_user_message(c, m, loop))
                  => UNCHANGED adapterVars]_vars

\* a registered conversation that is not ACTIVE and has no background run, so that
\* a post that went on would start one
C22_Witness ==
    \E c \in Registered :
        /\ StatusOf(c) \in {PAUSED, STOPPED, COMPLETED, ERROR}
        /\ running_tasks[c] = Absent
        /\ FreeRuns # {}

\* C23: after cleanup_conversation(c) the id is in none of the four maps, every
\* background run of c that is still alive has been cancelled, and a start of c is
\* not refused; for an id that is not registered the call changes nothing.
C23_CleanupRemovesAndCancels ==
    [][\A c \in ConvIds :
         cleanup_conversation(c) =>
            /\ conversations'[c] = Absent /\ event_streams'[c] = Absent
            /\ user_message_queues'[c] = Absent /\ running_tasks'[c] = Absent
            /\ \A t \in RunIds :
                  (rtask'[t].pc # "unused" /\ rtask'[t].cid = c) => rtask'[t].cancel
            /\ (start_conversation_raises(c, TRUE) = "")'
            /\ c \notin Registered => UNCHANGED adapterVars]_vars

\* C24: stream_events yields a conversation's events in the order they were produced
\* (the event queue is first-in first-out, so the order of the queue is the order of
\* the yields), and the iteration field of successive events does not decrease:
\* along every event queue the iter fields are non-decreasing.
C24_IterationNonDecreasing ==
    \A o \in Objs : \A i \in 1..(Len(evq[o]) - 1) : evq[o][i].iter <= evq[o][i + 1].iter

\* C25: for each background run, conversation_started is the first event the run places
\* on the event queue (the step that starts the run appends it, and the run has
\* forwarded no lab event before), and when the lab stream ends without error or
\* cancellation the run's last event is conversation_completed, appended to the
\* queue the run has been writing its agent messages to.
C25_StartedFirstCompletedLast ==
    [][\A t \in RunIds :
         /\ (rtask[t].pc = "created" /\ rtask'[t].pc = "streaming")
               => /\ rtask[t].n = 0
                  /\ evq'[rtask'[t].eq] =
                        Append(evq[rtask'[t].eq],
                               Event("conversation_started", "Conversation started", 0))
         /\ (rtask'[t].n > rtask[t].n) => rtask[t].pc = "streaming"
         /\ RunLabEnd(t)
               => /\ event_streams[rtask[t].cid] = rtask[t].eq
                  /\ evq'[rtask[t].eq] =
                        Append(evq[rtask[t].eq],
                               Event("conversation_completed", "Conversation completed", 0))
      ]_vars

\* C26: each conversation's user-message queue has a finite capacity, and a
\* post_user_message that would exceed it raises QueueFullError and leaves the queue
\* unchanged: the queue's maxsize is a positive number, no queue holds more than
\* that, and a post on a full queue changes no queue.
C26_UserQueueBounded ==
    [][\A c \in Registered, m \in Contents, loop \in BOOLEAN :
         (post_user_message_raises(c) = "" /\ post_user_message(c, m, loop))
            => /\ user_queue_maxsize > 0
               /\ Len(uq'[user_message_queues[c]]) <= user_queue_maxsize
               /\ put_nowait_raises(user_message_queues[c]) # "" => uq' = uq]_vars

\* C27: _process_listings returns exactly the top_n cheapest eligible listings: every
\* listing returned has the target currency and a price within [min_price, max_price]
\* and comes from the input, the result is sorted by ascending price, it holds top_n
\* listings or all the eligible ones when there are fewer, and no eligible listing left
\* out is cheaper than one returned.
C27_TopNCheapestEligible ==
    [][PipeProcess =>
         LET in == normalized_listings
             out == processed_listings'
             elig == {i \in 1..Len(in) : Eligible(in[i], task_params)}
             Occurrences(s, v) == Cardinality({i \in 1..Len(s) : s[i] = v}) IN
         /\ \A j \in 1..Len(out) : Eligible(out[j], task_params)
         /\ \A j \in 1..Len(out) : Occurrences(out, out[j]) <= Occurrences(in, out[j])
         /\ \A j, k \in 1..Len(out) : j < k => out[j].price <= out[k].price
         /\ Len(out) = IF Cardinality(elig) < task_params.top_n
                       THEN Cardinality(elig) ELSE task_params.top_n
         /\ \A v \in {in[i] : i \in elig} :
               Occurrences(out, v) < Occurrences(in, v)
                  => \A j \in 1..Len(out) : out[j].price <= v.price]_vars

\* the run of the example: prices 10, 200 and 50 USD, max_price 100, top_n 5 give 10, 50
C27_Witness ==
    /\ pipe_pc = "sink"
    /\ normalized_listings = <<Listing("x", 10, "USD"), Listing("x", 200, "USD"), Listing("x", 50, "USD")>>
    /\ task_params.max_price = 100 /\ task_params.min_price = 0 /\ task_params.top_n = 5
    /\ processed_listings = <<Listing("x", 10, "USD"), Listing("x", 50, "USD")>>

\* C28: in a pipeline run every configured sink receives exactly the processor's
\* output, and the run's stored results are those same records: each call of a sink
\* is for the next configured sink and is passed the list _process_listings returned,
\* and a completed run has called every configured sink and stored one result for
\* each of those listings, in the same order.
C28_SinksReceiveProcessorOutput ==
    /\ \A i \in 1..Len(sink_calls) :
          /\ sink_calls[i].sink = task_sinks[i]
          /\ sink_calls[i].listings = processed_listings
          /\ processed_listings = process_listings(normalized_listings, task_params)
    /\ run_status = "completed"
          => /\ Len(sink_calls) = Len(task_sinks)
             /\ Len(status_results) = Len(processed_listings)
             /\ \A i \in 1..Len(status_results) :
                   /\ status_results[i].price = processed_listings[i].price
                   /\ status_results[i].currency = processed_listings[i].currency

\* a completed run with two sinks, whose processor kept two listings and dropped one
C28_Witness ==
    /\ run_status = "completed"
    /\ Len(task_sinks) > 1
    /\ Len(processed_listings) > 1
    /\ Len(processed_listings) < Len(normalized_listings)

C30_NormalizeNeverFatal ==
    [][LET raw == source_result.data
           kept == SelectSeq(raw, LAMBDA it :
                      ~normalize_item_raises(it) /\ facebook_normalize_item(it) # <<>>)
           ukept == SelectSeq(raw, LAMBDA it :
                      ~normalize_item_raises(it) /\ universal_normalize_item(it) # <<>>) IN
       /\ PipeNormalize
             => /\ ~facebook_normalize(raw_data).raised
                /\ run_status' = "running"
                /\ raw_data = raw
                /\ Len(normalized_listings') <= Len(raw)
                /\ normalized_listings' = facebook_normalize(raw).out
                /\ normalized_listings' =
                      [i \in 1..Len(kept) |-> facebook_normalize_item(kept[i])[1]]
       /\ UniversalNormalize
             => /\ run_status' = "running"
                /\ Len(normalized_listings') <= Len(raw)
                /\ normalized_listings' =
                      [i \in 1..Len(ukept) |-> universal_normalize_item(ukept[i])[1]]]_vars

\* the pipeline has normalized data holding a record that is not a dict and a record
\* lacking a field, both before a record that gave a listing
C30_Witness ==
    /\ pipe_pc = "process"
    /\ normalized_listings # <<>>
    /\ \E i, j, k \in 1..Len(raw_data) :
          /\ i < k /\ j < k
          /\ normalize_item_raises(raw_data[i])
          /\ raw_data[j].shape = "dict" /\ ~raw_data[j].complete
          /\ raw_data[k].complete /\ extract_price(raw_data[k].price) # NoPrice

\* C31: every Listing a normalizer emits has non-empty id, title, url and currency
\* and a price >= 0, and a raw record from which such values cannot be extracted
\* yields no Listing: the listings of a normalized list all have a non-empty title
\* and currency and a price that is not negative, and they are as many as the
\* records that are dicts, have an id and a url (complete), have a title that is not
\* blank and, for the Facebook normalizer, have a price that parses to a number.
C31_ListingFieldsPresent ==
    /\ \A i \in 1..Len(normalized_listings) :
          /\ normalized_listings[i].title # ""
          /\ normalized_listings[i].currency # ""
          /\ normalized_listings[i].price >= 0
    /\ pipe_pc = "process"
          => /\ Len(normalized_listings) =
                   Cardinality({i \in 1..Len(raw_data) :
                      /\ raw_data[i].shape = "dict" /\ raw_data[i].complete
                      /\ raw_data[i].title \notin {"", " "}
                      /\ raw_data[i].price \in {"$10", "$50", "$200", "EUR10"}})
             /\ \A i \in 1..Len(normalized_listings) : normalized_listings[i].price > 0
    /\ pipe_pc = "normalized"
          => Len(normalized_listings) =
                Cardinality({i \in 1..Len(raw_data) :
                   /\ raw_data[i].shape = "dict" /\ raw_data[i].complete
                   /\ raw_data[i].title \notin {"", " "}})

\* normalized data holding a record with a blank title, a record without a price
\* and a record that gave a listing
C31_Witness ==
    /\ pipe_pc \in {"process", "normalized"}
    /\ normalized_listings # <<>>
    /\ \E i, j \in 1..Len(raw_data) :
          /\ raw_data[i].complete /\ raw_data[i].title = " "
          /\ raw_data[j].complete /\ raw_data[j].price = "free"

\* C32: can_resume_conversation(id) returns true iff a checkpoint exists for id and it
\* is a structured snapshot without the _pickled key, and it returns false, without
\* raising, when no checkpoint exists or loading it fails.
C32_ResumableIffStructured ==
    [][\A c \in ConvIds :
         can_resume_conversation(c)
            => /\ resume_result'.id = c
               /\ resume_result'.returned = "True" <=> checkpoints[c] = "structured"
               /\ checkpoints[c] \in {"None", "raises"} => resume_result'.returned = "False"
               /\ checkpoints[c] = "pickled" => resume_result'.returned = "False"]_vars

\* the call has refused an opaque checkpoint while the other id has a structured one
C32_Witness ==
    \E c, d \in ConvIds :
        /\ resume_result = [id |-> c, returned |-> "False"]
        /\ checkpoints[c] = "pickled"
        /\ checkpoints[d] = "structured"

\* C33: rollback(n) removes the last n entries of the live history window: the window
\* read afterwards is the previous one without its last n entries, shorter by n, with
\* the earlier entries unchanged and in the same order (for n up to the length of
\* the window).
C33_RollbackDropsLastN ==
    [][\A n \in 0..Len(history) :
         rollback(n) => /\ Len(history') = Len(history) - n
                        /\ \A i \in 1..Len(history') : history'[i] = history[i]]_vars

\* a rollback of 2 has cut a history of 3 entries that differ
C33_Witness ==
    /\ rolled.made /\ rolled.n = 2
    /\ Len(rolled.before) = 3 /\ rolled.before[1] # rolled.before[2]
    /\ history = <<rolled.before[1]>>

\* C34: at most one background run exists per conversation at any time: a second
\* _run_conversation is never started while an earlier run of the same id has not
\* terminated, so no two runs that have started and not ended have the same id.
C34_OneRunPerConversation ==
    \A t1, t2 \in RunIds :
        (t1 # t2 /\ rtask[t1].pc = "streaming" /\ rtask[t2].pc = "streaming")
           => rtask[t1].cid # rtask[t2].cid

(***************************************************************************)
(* Properties of the in-flight markers of the scheduler                    *)
(***************************************************************************)
\* C35: once the execution of a task has finished, the task's id is eventually
\* absent from active_futures: a marker that holds a finished future (no execution
\* of the task is pending or running behind it) does not remain, under every
\* interleaving of the scheduler thread and the worker thread.
C35_FinishedMarkerRemoved ==
    \A id \in TaskIds : (active_futures[id] = Done) ~> (active_futures[id] = Absent)

\* C36: the scheduler executes only tasks that enable_task has enabled: a task that
\* was created and never enabled (its status is still "created", which only
\* create_task writes and enable_task, disable_task and every run overwrite) is never
\* fired, also while the scheduler loop runs for other tasks.
C36_OnlyEnabledTasksRun ==
    [][\A th \in ThreadIds :
         Fires(th) => task_status[FiredTask(th)].status # "created"]_vars

\* C37: after stop_scheduler has returned and until start_scheduler or enable_task
\* is called again (_running stays False), no step submits a task or starts an
\* execution on a worker, and active_futures stays empty.
C37_StoppedSchedulerStartsNothing ==
    [][(~scheduler_running /\ ~scheduler_running')
          => /\ \A id \in TaskIds : active_futures'[id] = Absent
             /\ \A th \in ThreadIds : ~Fires(th)
             /\ \A f \in FutIds :
                   ~(futures[f].state = "pending" /\ futures'[f].state = "counting")]_vars

(***************************************************************************)
(* Properties of the adapter's maps                                        *)
(***************************************************************************)
\* C38: in every reachable state the conversation map, the event-queue map and the
\* user-message-queue map have the same key set, and every key of the running-task
\* map is a registered conversation, for any sequence of start, stop, cleanup,
\* post_user_message and stream_events calls.
C38_MapsHaveSameKeys ==
    \A c \in ConvIds :
        /\ (conversations[c] = Absent) = (event_streams[c] = Absent)
        /\ (conversations[c] = Absent) = (user_message_queues[c] = Absent)
        /\ running_tasks[c] # Absent => conversations[c] # Absent

\* a conversation that was started and got a background run has been cleaned up: its
\* id has left the four maps while its cancelled run has not yet terminated
C38_Witness ==
    \E c \in ConvIds :
        /\ conversations[c] = Absent /\ event_streams[c] = Absent
        /\ user_message_queues[c] = Absent /\ running_tasks[c] = Absent
        /\ \E t \in RunIds : rtask[t].cid = c /\ rtask[t].pc = "streaming" /\ rtask[t].cancel

(***************************************************************************)
(* Properties of a failing background run                                  *)
(***************************************************************************)
\* C39: when the lab stream raises during a background run, the status of the run's
\* conversation becomes ERROR (the state the run writes to is the one registered for
\* its id), an error event is put behind every event the run has forwarded (the
\* stream _emit_event finds for the id is the queue the run has been writing to, and
\* that queue gets the error event and nothing else, in particular no
\* conversation_completed), and no entry of the running-task map holds the run.
C39_LabFailureReported ==
    [][\A t \in RunIds :
         RunLabRaise(t)
            => /\ conversations[rtask[t].cid] = rtask[t].obj
               /\ status'[rtask[t].obj] = ERROR
               /\ event_streams[rtask[t].cid] = rtask[t].eq
               /\ evq'[rtask[t].eq] = Append(evq[rtask[t].eq], Event("error", "Error", 0))
               /\ \A c \in ConvIds : running_tasks'[c] # t]_vars

====
